---- MODULE Spec2Model ----
(***************************************************************************)
(* Arbitrage detection engine of jerry6606/test.                           *)
(*                                                                         *)
(*   src/test/gas1.py      triangular arbitrage on one exchange:           *)
(*                         preprocess_data -> build_currency_graph ->      *)
(*                         find_triangular_arbitrage                       *)
(*   src/测试/main1.py      inter-exchange spread finder                    *)
(*                         (find_arbitrage_opportunities) and the          *)
(*                         deposit-cost optimizer (calc_deposit_cost)      *)
(*   src/测试/config.py     deposit fee table and network preference policy *)
(*                                                                         *)
(* Decimal values are fixed-point integers: a Decimal d is the integer     *)
(* d * Scale (gas1.py) or d * Scale2 (main1.py).  Every multiplication and *)
(* division rounds half-even to that resolution, as the Decimal context    *)
(* rounds every operation to its precision.  Python dicts are sequences in *)
(* insertion order; an assignment to an existing key keeps its position.   *)
(***************************************************************************)
EXTENDS Integers, Sequences, FiniteSets, TLC

(***************************************************************************)
(* Fixed-point Decimal arithmetic                                          *)
(***************************************************************************)

\* Resolution of the Decimals of gas1.py: units of 1e-7.
Scale == 10^7

\* Resolution of the Decimals of main1.py: units of 1e-4.
Scale2 == 10^4

\* Decimal('Infinity') / float('inf'): above every finite value.
PosInf == (2^30 - 1) * 2 + 1

\* Decimal('-Infinity'): below every finite value.
NegInf == -PosInf

\* Decimal('NaN'): no finite value; an ordering comparison with it raises
\* decimal.InvalidOperation.
NaN == NegInf + 1

\* Python's None (a missing field).
None == NegInf + 2

\* A string that Decimal() and float() cannot parse.
BadStr == NegInf + 3

IsFinite(x) == x > BadStr /\ x < PosInf

Abs(x) == IF x < 0 THEN -x ELSE x

Sgn(x) == IF x < 0 THEN -1 ELSE IF x > 0 THEN 1 ELSE 0

Min2(a, b) == IF b < a THEN b ELSE a

Max2(a, b) == IF b > a THEN b ELSE a

\* x + y for 0 <= x, y < d, as <<carry, (x + y) % d>>, without leaving 32 bits.
AddMod(x, y, d) == IF x >= d - y THEN <<1, x - (d - y)>> ELSE <<0, x + y>>

\* <<q, r>> with a * b = q * d + r and 0 <= r < d, for a, b >= 0 and d > 0:
\* binary long multiplication, so that no intermediate leaves 32 bits.
RECURSIVE MulDivQR(_, _, _)
MulDivQR(a, b, d) ==
  IF b = 0 THEN <<0, 0>>
  ELSE LET h == MulDivQR(a, b \div 2, d)
           dbl == AddMod(h[2], h[2], d)
           odd == b % 2 = 1
           add == AddMod(dbl[2], IF odd THEN a % d ELSE 0, d)
       IN <<2 * h[1] + dbl[1] + add[1] + (IF odd THEN a \div d ELSE 0), add[2]>>

\* ROUND_HALF_EVEN (the Decimal context's default rounding) of q + r/d.
RoundHalfEven(q, r, d) ==
  IF r > d - r THEN q + 1
  ELSE IF r = d - r THEN (IF q % 2 = 0 THEN q ELSE q + 1)
  ELSE q

\* round(a * b / d), rounding half-even, signs handled; the product is
\* computed directly when it fits 32 bits.
MulDivRound(a, b, d) ==
  LET x == Abs(a)
      y == Abs(b)
      qr == IF y = 0 \/ x <= PosInf \div y
              THEN <<(x * y) \div Abs(d), (x * y) % Abs(d)>>
            ELSE IF x <= y THEN MulDivQR(y, x, Abs(d))
            ELSE MulDivQR(x, y, Abs(d))
  IN Sgn(a) * Sgn(b) * Sgn(d) * RoundHalfEven(qr[1], qr[2], Abs(d))

\* <<q, r>> of decimal long division: k more digits of (q + r/d), d <= 2^31 / 10.
RECURSIVE DivDigits(_, _, _, _)
DivDigits(q, r, d, k) ==
  IF k = 0 THEN <<q, r>>
  ELSE DivDigits(q * 10 + (r * 10) \div d, (r * 10) % d, d, k - 1)

\* The number of decimal digits of the resolution s = 10^k.
RECURSIVE Digits(_)
Digits(s) == IF s = 1 THEN 0 ELSE 1 + Digits(s \div 10)

\* <<q, r>> with x * y = q * s + r for x, y >= 0 and s = 10^4 * v, by limbs of
\* 4 digits, so that no intermediate leaves 32 bits when the quotient fits.
LimbMulQR(x, y, s) ==
  LET u == 10^4
      v == s \div u
      xh == x \div s
      xl == x % s
      yh == y \div s
      yl == y % s
      x1 == xl \div u
      x0 == xl % u
      y1 == yl \div u
      y0 == yl % u
      m == x1 * y0 + x0 * y1
      rest == (m % v) * u + x0 * y0
  IN <<xh * yh * s + xh * yl + xl * yh + x1 * y1 * (u \div v) + m \div v
         + rest \div s,
       rest % s>>

\* Decimal multiplication at resolution 1/s: a * b, rounded half-even.
FMul(a, b, s) ==
  LET qr == LimbMulQR(Abs(a), Abs(b), s)
  IN Sgn(a) * Sgn(b) * RoundHalfEven(qr[1], qr[2], s)

\* Decimal division at resolution 1/s: a / b, rounded half-even.
FDiv(a, b, s) ==
  LET x == Abs(a)
      y == Abs(b)
      qr == DivDigits(x \div y, x % y, y, Digits(s))
  IN IF y % s = 0
     THEN Sgn(a) * Sgn(b) * RoundHalfEven(x \div (y \div s), x % (y \div s), y \div s)
     ELSE IF y <= PosInf \div 10
     THEN Sgn(a) * Sgn(b) * RoundHalfEven(qr[1], qr[2], y)
     ELSE MulDivRound(a, s, b)

\* Decimal(n) for an integer n, and the Decimal literal n/m.
D(n) == n * Scale

Lit(n, m) == MulDivRound(n, Scale, m)

DMul(a, b) == FMul(a, b, Scale)

DDiv(a, b) == FDiv(a, b, Scale)

\* Decimal.sqrt() of x >= 0: Newton's iteration from above, to the resolution.
\* The start is above the root: every x of 32 bits is below 15 * 15.
RECURSIVE SqrtIter(_, _)
SqrtIter(x, r) ==
  LET n == (r + DDiv(x, r)) \div 2
  IN IF n >= r THEN r ELSE SqrtIter(x, n)

DSqrt(x) == IF x = 0 THEN 0 ELSE SqrtIter(x, Min2(Max2(x, D(1)), D(15)))

\* exp(-n) for n = 0..20, in units of 1e-7 (math.exp at integer arguments).
ExpNegInt ==
  <<10000000, 3678794, 1353353, 497871, 183156, 67379, 24788, 9119, 3355,
    1234, 454, 167, 61, 23, 8, 3, 1, 0, 0, 0, 0>>

\* Taylor series of exp(x) for -1 < x <= 0: sum of x^k / k!, from term k on.
RECURSIVE ExpSeries(_, _, _)
ExpSeries(x, term, k) ==
  IF term = 0 THEN 0
  ELSE term + ExpSeries(x, MulDivRound(DMul(term, x), 1, k), k + 1)

\* math.exp(x) for -20 <= x <= 0: exp(-n) * exp(-f) with x = -n - f.
MathExp(x) ==
  LET n == (-x) \div Scale
      f == -((-x) % Scale)
  IN DMul(ExpNegInt[n + 1], ExpSeries(f, Scale, 1))

(***************************************************************************)
(* gas1.py: inputs                                                         *)
(***************************************************************************)

\* The most entries of one snapshot (instrument_data and price_data together).
MaxEntries == 3

Currencies == {"USDT", "A", "B", "A-A"}

\* One entry of the snapshot: the item of instrument_data (instId,
\* base_currency, quote_currency, price_precision; listed = FALSE when the item
\* lacks one of these keys) and the item of price_data[0]['data'] with the same
\* instId (askPx, bidPx, askSz, bidSz as read from JSON: a number, None, an
\* unparseable string, or "NaN").
Entry(id, b, q, l, pp, ap, bp, as, bs) ==
  [instId |-> id, base_currency |-> b, quote_currency |-> q, listed |-> l,
   price_precision |-> pp, askPx |-> ap, bidPx |-> bp, askSz |-> as, bidSz |-> bs]

\* Well-formed entry with price increment 0.01.
Quote(id, b, q, ap, bp, as, bs) == Entry(id, b, q, TRUE, Lit(1, 100), ap, bp, as, bs)

\* The entries a snapshot is drawn from.
EntryUniverse ==
  { Quote("A-USDT", "A", "USDT", D(1), D(1), D(100), D(100)),
    Quote("A-USDT", "A", "USDT", Lit(1002, 1000), D(1), D(100), D(100)),
    Quote("A-USDT", "A", "USDT", Lit(125, 100), D(1), D(0), D(0)),
    Quote("A-USDT", "A", "USDT", D(1), D(2), D(100), D(100)),
    Quote("A-USDT", "A", "USDT", D(105), D(105), D(1), D(100)),
    Quote("A-USDT", "A", "USDT", D(100), D(0), D(100), D(100)),
    Quote("A-USDT", "A", "USDT", D(-1), D(1), D(100), D(100)),
    Quote("A-USDT", "A", "USDT", D(1), D(1), NaN, D(100)),
    Quote("A-USDT", "A", "USDT", None, D(1), D(100), D(100)),
    Quote("A-USDT", "A", "USDT", D(1), D(1), D(100), D(50)),
    Entry("A-USDT", "A", "USDT", FALSE, Lit(1, 100), D(1), D(1), D(100), D(100)),
    Entry("A-USDT", "A", "USDT", TRUE, D(0), D(1), D(1), D(100), D(100)),
    Entry("A-USDT", "A", "USDT", TRUE, D(0), Lit(1002, 1000), D(1), D(100), D(100)),
    Entry("B-USDT", "B", "USDT", TRUE, BadStr, Lit(10001, 10000), D(1), D(100), D(100)),
    Quote("B-USDT", "B", "USDT", D(1), D(1), D(100), D(100)),
    Quote("A-B", "A", "B", D(1), D(1), D(100), D(100)),
    Quote("A-B", "A", "B", D(1), D(1), D(100), BadStr),
    Quote("B-A", "B", "A", D(2), D(2), D(100), D(100)),
    Quote("A-A", "A", "A", D(2), D(2), D(100), D(100)),
    Quote("A-A-USDT", "A-A", "USDT", D(1), D(1), D(100), D(100)),
    Quote("A-A-A", "A-A", "A", D(1), D(1), D(100), D(100)) }

\* The snapshots of at most n entries: sequences of entries of S of distinct
\* instId (the exchange lists each instrument once).
RECURSIVE Snapshots(_, _)
Snapshots(S, n) ==
  IF n = 0 THEN {<<>>}
  ELSE LET shorter == Snapshots(S, n - 1)
       IN shorter \cup
          {Append(t, x) : <<t, x>> \in
             {<<u, y>> \in shorter \X S :
                /\ Len(u) = n - 1
                /\ \A i \in 1..Len(u) : u[i].instId # y.instId}}

\* min_volume of build_currency_graph (default 100).
GraphMinVolumes == {D(100), D(0)}

\* Parameters of find_triangular_arbitrage: start_currency, min_profit (percent,
\* in units of 1e-5), min_volume, max_slippage (percent).
SearchConfig(st, mp, mv, ms) ==
  [start_currency |-> st, min_profit |-> mp, min_volume |-> mv, max_slippage |-> ms]

\* Percent values compared with profit_percent are in units of 1e-5 percent, so
\* that (amount - 1) * 100 is amount - Scale, exactly.
PctScale == Scale \div 100

Pct(n, m) == MulDivRound(n, PctScale, m)

SearchConfigs ==
  { SearchConfig("USDT", Pct(1, 100), D(80), D(1)),
    SearchConfig("USDT", Pct(-100, 1), D(0), D(100)),
    SearchConfig("A", Pct(-100, 1), D(20), D(1)) }

(***************************************************************************)
(* gas1.py: preprocess_data                                                *)
(***************************************************************************)

\* safe_decimal_convert: None and unparseable strings give the default; "NaN"
\* parses to Decimal('NaN'); a number is kept.
safe_decimal_convert(value, default) ==
  IF value = None \/ value = BadStr THEN default ELSE value

\* The instruments dict at key id: the last item of instrument_data with that
\* instId that has all its keys (an item lacking one raises KeyError and is
\* skipped), as <<info>>; <<>> when id is not in the dict.
RECURSIVE InstrumentOf(_, _)
InstrumentOf(entries, id) ==
  IF entries = <<>> THEN <<>>
  ELSE LET e == entries[Len(entries)]
       IN IF e.listed /\ e.instId = id
          THEN <<[base_currency |-> e.base_currency,
                  quote_currency |-> e.quote_currency,
                  price_precision |->
                    safe_decimal_convert(e.price_precision, Lit(1, 10000))]>>
          ELSE InstrumentOf(SubSeq(entries, 1, Len(entries) - 1), id)

\* prices[inst_id] = rec on the dict kept in insertion order: an existing key
\* is overwritten in place, a new one is appended.
PricesPut(prices, rec) ==
  IF \E i \in 1..Len(prices) : prices[i].inst_id = rec.inst_id
  THEN [i \in 1..Len(prices) |->
          IF prices[i].inst_id = rec.inst_id THEN rec ELSE prices[i]]
  ELSE Append(prices, rec)

\* Variant of the validity check that lets a negative price through.
PriceInvalidAdmitsNegative(ask_px, bid_px) ==
  \/ ask_px = None \/ bid_px = None \/ ask_px = 0 \/ bid_px = 0
  \/ ask_px = NaN \/ bid_px = NaN

\* The validity check `not all([ask_px, bid_px]) or ask_px <= 0 or bid_px <= 0`
\* counts the item invalid: a price is None or zero (falsy), or not positive;
\* the comparison of a NaN price raises, which the try block counts invalid too.
PriceInvalid(ask_px, bid_px) ==
  \/ ask_px = None \/ bid_px = None \/ ask_px = 0 \/ bid_px = 0
  \/ ask_px = NaN \/ bid_px = NaN
  \/ ask_px <= 0 \/ bid_px <= 0

\* One iteration of the price loop for an item whose instrument is info: <<rec>>,
\* the record stored in prices, or <<>> when the item is counted invalid (a
\* missing, zero or negative price, or an exception inside the try block: the
\* comparison of a NaN price, 0 / 0 of a zero spread by a zero increment).
PriceRecord(item, info) ==
  LET ask_px == safe_decimal_convert(item.askPx, None)
      bid_px == safe_decimal_convert(item.bidPx, None)
      ask_sz == safe_decimal_convert(item.askSz, D(0))
      bid_sz == safe_decimal_convert(item.bidSz, D(0))
      price_precision == info.price_precision
      spread == ask_px - bid_px
      mid_price == MulDivRound(ask_px + bid_px, 1, 2)
  IN IF PriceInvalid(ask_px, bid_px) THEN <<>>
     ELSE IF mid_price = 0 /\ spread = 0 THEN <<>>
     ELSE IF price_precision = 0 /\ spread = 0 THEN <<>>
     ELSE <<[buy_price |-> ask_px,
             sell_price |-> bid_px,
             base_currency |-> info.base_currency,
             quote_currency |-> info.quote_currency,
             ask_sz |-> ask_sz,
             bid_sz |-> bid_sz,
             inst_id |-> item.instId,
             spread |-> spread,
             mid_price |-> mid_price,
             slippage_percent |->
               IF mid_price = 0 THEN D(0) ELSE DDiv(spread, mid_price) * 100,
             price_units |->
               IF price_precision = 0 THEN D(0) ELSE DDiv(spread, price_precision),
             price_precision |-> price_precision]>>

\* The state of the price loop after an item: rec is <<>> when the item was
\* counted invalid, <<record>> when its record was stored.
PriceCounted(st, rec) ==
  IF rec = <<>> THEN [st EXCEPT !.invalid_count = @ + 1]
  ELSE [st EXCEPT !.prices = PricesPut(@, rec[1]), !.valid_count = @ + 1]

\* What one item of price_data gives: <<>> when its instId is not in
\* instruments or its record is invalid.
PriceItem(entries, i, info) ==
  IF info = <<>> THEN <<>> ELSE PriceRecord(entries[i], info[1])

\* The price loop over items i.., with the prices dict and the counters so far.
RECURSIVE PriceLoop(_, _, _)
PriceLoop(entries, i, st) ==
  IF i > Len(entries) THEN st
  ELSE PriceLoop(entries, i + 1,
                 PriceCounted(st, PriceItem(entries, i,
                                            InstrumentOf(entries, entries[i].instId))))

\* The loop of preprocess_data from its start: prices, valid_count and
\* invalid_count when it ends.
PriceLoops(entries) ==
  PriceLoop(entries, 1, [prices |-> <<>>, valid_count |-> 0, invalid_count |-> 0])

\* preprocess_data: the prices dict. For an empty input it returns None, which
\* its caller treats as it treats the empty dict (`if not prices`).
preprocess_data(entries) == PriceLoops(entries).prices

(***************************************************************************)
(* gas1.py: build_currency_graph                                           *)
(***************************************************************************)

\* The graph before the first record: no currency has an edge.
EmptyGraph == [c \in Currencies |-> <<>>]

\* Variant of the assignment that keeps the edge already stored under the key.
GraphPutKeepsFirst(graph, e) ==
  LET inner == graph[e.from]
  IN [graph EXCEPT ![e.from] =
        IF \E i \in 1..Len(inner) : inner[i].to = e.to
        THEN inner
        ELSE Append(inner, e)]

\* graph[e.from][e.to] = e: the inner dict keeps insertion order, and an
\* existing key is overwritten in place.
GraphPut(graph, e) ==
  LET inner == graph[e.from]
  IN [graph EXCEPT ![e.from] =
        IF \E i \in 1..Len(inner) : inner[i].to = e.to
        THEN [i \in 1..Len(inner) |-> IF inner[i].to = e.to THEN e ELSE inner[i]]
        ELSE Append(inner, e)]

\* The sell leg base -> quote of a price record.
SellEdge(data) ==
  [rate |-> DDiv(D(1), data.sell_price),
   inst_id |-> data.inst_id,
   type |-> "sell",
   volume |-> data.bid_sz,
   price |-> data.sell_price,
   from |-> data.base_currency,
   to |-> data.quote_currency,
   slippage_percent |-> data.slippage_percent,
   price_units |-> data.price_units]

\* Available volume of the buy leg: ask_sz * buy_price (NaN stays NaN).
BuyVolume(data) ==
  IF data.ask_sz = NaN THEN NaN ELSE DMul(data.ask_sz, data.buy_price)

\* The buy leg quote -> base of a price record.
BuyEdge(data) ==
  [rate |-> data.buy_price,
   inst_id |-> data.inst_id,
   type |-> "buy",
   volume |-> BuyVolume(data),
   price |-> data.buy_price,
   from |-> data.quote_currency,
   to |-> data.base_currency,
   slippage_percent |-> data.slippage_percent,
   price_units |-> data.price_units]

\* Variant of the sell-direction test that admits every record.
SellLegUnchecked(data, min_volume) == TRUE

\* The sell-direction test `data['bid_sz'] >= min_volume`.
SellLegPasses(data, min_volume) == data.bid_sz >= min_volume

\* The buy-direction test `data['ask_sz'] * data['buy_price'] >= min_volume`.
BuyLegPasses(data, min_volume) == BuyVolume(data) >= min_volume

\* One iteration of the loop over prices.items().
GraphStep(graph, data, min_volume) ==
  LET g1 == IF SellLegPasses(data, min_volume)
            THEN GraphPut(graph, SellEdge(data)) ELSE graph
  IN IF BuyLegPasses(data, min_volume) THEN GraphPut(g1, BuyEdge(data)) ELSE g1

\* A comparison of Decimal('NaN') with min_volume raises InvalidOperation, which
\* build_currency_graph does not catch.
GraphStepRaises(data) == data.bid_sz = NaN \/ BuyVolume(data) = NaN

RECURSIVE GraphLoop(_, _, _, _)
GraphLoop(prices, i, graph, min_volume) ==
  IF i > Len(prices) THEN graph
  ELSE GraphLoop(prices, i + 1, GraphStep(graph, prices[i], min_volume), min_volume)

\* build_currency_graph, when it returns.
build_currency_graph(prices, min_volume) == GraphLoop(prices, 1, EmptyGraph, min_volume)

\* build_currency_graph raises instead of returning.
build_currency_graph_raises(prices) ==
  \E i \in 1..Len(prices) : GraphStepRaises(prices[i])

(***************************************************************************)
(* gas1.py: decimal_exp and find_triangular_arbitrage                      *)
(***************************************************************************)

\* decimal_exp: beyond |x| > 20 the limit (Inf or 0) is returned instead of
\* evaluating the exponential.
decimal_exp(x) ==
  IF Abs(x) > D(20) THEN (IF x > 0 THEN PosInf ELSE D(0))
  ELSE IF x > 0 THEN DDiv(D(1), MathExp(-x))
  ELSE MathExp(x)

\* Decimal subtraction 1 - y, y possibly infinite.
OneMinus(y) ==
  IF y = PosInf THEN NegInf ELSE IF y = NegInf THEN PosInf ELSE D(1) - y

\* Variant of the slippage computation that applies the impact unclamped.
StepSlippageUnclamped(step) ==
  LET factor == Lit(5, 100)
      slippage_pct == DDiv(step.slippage_percent, D(100))
      exponent == DDiv(-slippage_pct, DMul(factor, DSqrt(step.volume) + Lit(1, 10)))
      raw == OneMinus(decimal_exp(exponent))
  IN [exponent |-> exponent, raw_impact |-> raw, slippage_impact |-> raw]

\* The slippage computation of one step of the path: the exponent, the
\* impact before clamping, and the impact applied (clamped to [0, 0.1]).
StepSlippage(step) ==
  LET factor == Lit(5, 100)
      slippage_pct == DDiv(step.slippage_percent, D(100))
      exponent == DDiv(-slippage_pct, DMul(factor, DSqrt(step.volume) + Lit(1, 10)))
      raw == OneMinus(decimal_exp(exponent))
  IN [exponent |-> exponent,
      raw_impact |-> raw,
      slippage_impact |-> Max2(Min2(raw, Lit(1, 10)), D(0))]

\* amount *= rate * (1 - fee) * (1 - slippage_impact)
StepAmount(amount, step, slippage_impact) ==
  LET fee == Lit(1, 1000)
  IN DMul(amount, DMul(DMul(step.rate, D(1) - fee), D(1) - slippage_impact))

\* Decimal.quantize(Decimal('0.0001')) of a percent value in units of 1e-5: the
\* value rounded half-even to 4 decimals, in units of 1e-4.
Quantize4(p) ==
  Sgn(p) * RoundHalfEven(Abs(p) \div 10, Abs(p) % 10, 10)

\* Digits of the Decimal context (getcontext().prec).
Prec == 8

\* quantize raises InvalidOperation when the result has more digits than the
\* context's precision.
QuantizeRaises(p) == Abs(Quantize4(p)) >= 10^Prec

MinVolumeOf(path) == Min2(path[1].volume, Min2(path[2].volume, path[3].volume))

MaxSlippageOf(path) ==
  Max2(path[1].slippage_percent,
       Max2(path[2].slippage_percent, path[3].slippage_percent))

\* Variant of the profit filter with the comparison inverted.
ProfitRejectedInverted(profit_percent, min_profit) == profit_percent > min_profit

\* `if profit_percent < min_profit: continue`
ProfitRejected(profit_percent, min_profit) == profit_percent < min_profit

\* Variant of the volume filter that rejects nothing.
VolumeRejectedNever(path_volume, min_volume) == FALSE

\* `if path_volume < min_volume: continue`
VolumeRejected(path_volume, min_volume) == path_volume < min_volume

\* `if total_slippage > max_slippage: continue`
SlippageRejected(total_slippage, max_slippage) == total_slippage > max_slippage

\* The slippage computation of each of the three steps of the loop over path.
PathSlippage(path) ==
  <<StepSlippage(path[1]), StepSlippage(path[2]), StepSlippage(path[3])>>

\* The amount after the first k steps of the loop over path, from amount 1.
RECURSIVE AmountAfter(_, _, _)
AmountAfter(path, slip, k) ==
  IF k = 0 THEN D(1)
  ELSE StepAmount(AmountAfter(path, slip, k - 1), path[k], slip[k].slippage_impact)

\* The try block from the profit filter on, for the final amount.
PathResult(path, cfg, slip, total_slippage, amount) ==
  LET profit_percent == amount - D(1)
      path_volume == MinVolumeOf(path)
      failed == [outcome |-> "error", slippage |-> slip, profit |-> profit_percent,
                 opp |-> <<>>]
  IN IF ProfitRejected(profit_percent, cfg.min_profit)
       THEN [failed EXCEPT !.outcome = "profit"]
     ELSE IF VolumeRejected(path_volume, cfg.min_volume)
       THEN [failed EXCEPT !.outcome = "volume"]
     ELSE IF QuantizeRaises(profit_percent) THEN failed
     ELSE [outcome |-> "emitted",
           slippage |-> slip,
           profit |-> profit_percent,
           opp |-> <<[path |-> path,
                      profit_percent |-> Quantize4(profit_percent),
                      final_amount |-> amount,
                      path_volume |-> path_volume,
                      total_slippage |-> total_slippage,
                      max_step_slippage |-> MaxSlippageOf(path)]>>]

\* The try block from the loop over path on, for the slippage computations
\* of its steps.
PathProfit(path, cfg, total_slippage, slip) ==
  PathResult(path, cfg, slip, total_slippage, AmountAfter(path, slip, 3))

\* The body of the try block for one path: what became of the path (emitted,
\* or rejected by which filter, or an exception caught), with the values
\* computed on the way.
EvalPath(path, cfg) ==
  LET guard_fails ==
        \E i \in 1..3 : path[i].slippage_percent < D(0) \/ path[i].rate <= D(0)
      total_slippage ==
        path[1].slippage_percent + path[2].slippage_percent + path[3].slippage_percent
      sqrt_raises == \E i \in 1..3 : path[i].volume < D(0)
      none == [outcome |-> "error", slippage |-> <<>>, profit |-> 0, opp |-> <<>>]
  IN IF guard_fails THEN none
     ELSE IF SlippageRejected(total_slippage, cfg.max_slippage)
       THEN [none EXCEPT !.outcome = "slippage"]
     ELSE IF sqrt_raises THEN none
     ELSE PathProfit(path, cfg, total_slippage, PathSlippage(path))

\* graph.get(a, {}).get(b): <<edge>> or <<>>.
EdgeOf(graph, a, b) ==
  IF a \notin DOMAIN graph THEN <<>>
  ELSE SelectSeq(graph[a], LAMBDA e : e.to = b)

\* graph.get(c, {}).items()
EdgesFrom(graph, c) == IF c \in DOMAIN graph THEN graph[c] ELSE <<>>

\* f"{first_currency}-{second_currency}"
PathId(first_currency, second_currency) == first_currency \o "-" \o second_currency

\* The search state after a path was evaluated with result r: its id is in
\* checked_paths, its opportunity (if any) is appended, and the log tells what
\* became of it.
PathChecked(st, first_step, second_step, path_id, r) ==
  [opportunities |-> st.opportunities \o r.opp,
   checked_paths |-> st.checked_paths \cup {path_id},
   log |-> Append(st.log, [path_id |-> path_id, c1 |-> first_step.to,
                           c2 |-> second_step.to, outcome |-> r.outcome,
                           slippage |-> r.slippage, profit |-> r.profit])]

\* The search state after a path was skipped because its id was checked before.
PathSkipped(st, first_step, second_step, path_id) ==
  [st EXCEPT !.log = Append(@, [path_id |-> path_id, c1 |-> first_step.to,
                                c2 |-> second_step.to, outcome |-> "duplicate",
                                slippage |-> <<>>, profit |-> 0])]

\* The body of the inner loop for one (first_step, second_step): the state of
\* the search is the opportunities found, the checked_paths set, and the log
\* of the paths that reached the de-duplication test.
SearchStep(st, graph, cfg, first_step, second_step) ==
  LET second_currency == second_step.to
      third == EdgeOf(graph, second_currency, cfg.start_currency)
      path_id == PathId(first_step.to, second_currency)
  IN IF second_currency = cfg.start_currency THEN st
     ELSE IF third = <<>> THEN st
     ELSE IF path_id \in st.checked_paths
       THEN PathSkipped(st, first_step, second_step, path_id)
     ELSE PathChecked(st, first_step, second_step, path_id,
                      EvalPath(<<first_step, second_step, third[1]>>, cfg))

\* The inner loop over graph.get(first_currency, {}).items(), from index j.
RECURSIVE InnerLoop(_, _, _, _, _)
InnerLoop(st, graph, cfg, first_step, j) ==
  LET seconds == EdgesFrom(graph, first_step.to)
  IN IF j > Len(seconds) THEN st
     ELSE InnerLoop(SearchStep(st, graph, cfg, first_step, seconds[j]),
                    graph, cfg, first_step, j + 1)

\* The outer loop over graph.get(start_currency, {}).items(), from index i.
RECURSIVE OuterLoop(_, _, _, _)
OuterLoop(st, graph, cfg, i) ==
  LET firsts == EdgesFrom(graph, cfg.start_currency)
  IN IF i > Len(firsts) THEN st
     ELSE OuterLoop(InnerLoop(st, graph, cfg, firsts[i], 1), graph, cfg, i + 1)

\* Variant of the insertion that puts x before the elements of equal key.
RECURSIVE InsertDescBeforeEqual(_, _)
InsertDescBeforeEqual(sorted, x) ==
  IF sorted = <<>> THEN <<x>>
  ELSE IF sorted[Len(sorted)].profit_percent > x.profit_percent
    THEN Append(sorted, x)
  ELSE Append(InsertDescBeforeEqual(SubSeq(sorted, 1, Len(sorted) - 1), x),
              sorted[Len(sorted)])

\* Where sorted(..., reverse=True) puts x among the already sorted: after every
\* element whose key is not smaller (the sort is stable).
RECURSIVE InsertDesc(_, _)
InsertDesc(sorted, x) ==
  IF sorted = <<>> THEN <<x>>
  ELSE IF sorted[Len(sorted)].profit_percent >= x.profit_percent
    THEN Append(sorted, x)
  ELSE Append(InsertDesc(SubSeq(sorted, 1, Len(sorted) - 1), x), sorted[Len(sorted)])

\* sorted(opportunities, key=lambda x: x['profit_percent'], reverse=True)
RECURSIVE SortByProfit(_)
SortByProfit(opps) ==
  IF opps = <<>> THEN <<>>
  ELSE InsertDesc(SortByProfit(SubSeq(opps, 1, Len(opps) - 1)), opps[Len(opps)])

\* The loops of find_triangular_arbitrage: the search state when they end.
SearchLoops(graph, cfg) ==
  OuterLoop([opportunities |-> <<>>, checked_paths |-> {}, log |-> <<>>],
            graph, cfg, 1)

\* find_triangular_arbitrage: the list it returns.
find_triangular_arbitrage(graph, cfg) ==
  SortByProfit(SearchLoops(graph, cfg).opportunities)

(***************************************************************************)
(* config.py: the deposit fee table and the network selection strategy     *)
(*                                                                         *)
(* Amounts of main1.py and config.py are fixed-point numbers in units of   *)
(* 1/Scale2; a quotient that does not terminate there is rounded half-even *)
(* at the fourth decimal.                                                  *)
(***************************************************************************)

\* The number n/m.
Lit2(n, m) == MulDivRound(n, Scale2, m)

Mul2(a, b) == FMul(a, b, Scale2)

Div2(a, b) == FDiv(a, b, Scale2)

\* A missing key of a dict, and a value that cannot be hashed (a list).
Missing == NegInf + 4
Unhashable == "<unhashable>"

\* A positive price that is not above 0.000001, which is below the resolution
\* 1/Scale2 of the other amounts (such as 0.0000005).
TinyPrice == NegInf + 5

\* Python's None where a network name is expected.
NoNetwork == "<None>"

\* One entry {"time": minutes, "fee": n/m} of the fee table.
FeeData(time, n, m) == [time |-> time, fee |-> Lit2(n, m)]

EXCHANGE_DEPOSIT_CONFIG ==
  [Binance |->
     [BSC |-> FeeData(1, 0, 1), TRC20 |-> FeeData(1, 1, 1),
      SOL |-> FeeData(1, 5, 10), ERC20 |-> FeeData(2, 25, 10),
      ARBITRUM |-> FeeData(1, 18, 100), OPBNB |-> FeeData(4, 0, 1),
      APTOS |-> FeeData(1, 4, 100), POLYGON |-> FeeData(1, 2, 100),
      AVAXC |-> FeeData(1, 81, 1000), OPTIMISM |-> FeeData(1, 25, 1000),
      EOS |-> FeeData(1, 1, 1), NEAR |-> FeeData(1, 2, 10),
      SCROLL |-> FeeData(1, 1, 10), XTZ |-> FeeData(5, 1, 10)],
   OKX |->
     [TRC20 |-> FeeData(2, 25, 10), ERC20 |-> FeeData(2, 144, 100),
      SOL |-> FeeData(2, 1, 1), ARBITRUM |-> FeeData(2, 1, 10),
      XLAYER |-> FeeData(2, 1, 10), APTOS |-> FeeData(2, 3, 100),
      AVAXC |-> FeeData(2, 22, 100), OPTIMISM |-> FeeData(2, 15, 100),
      POLYGON |-> FeeData(2, 8, 10)],
   HTX |->
     [TRC20 |-> FeeData(3, 12, 10), ERC20 |-> FeeData(3, 2625, 1000),
      SOL |-> FeeData(3, 1649, 1000), BSC |-> FeeData(3, 8, 10),
      AVAXC |-> FeeData(4, 21, 100), ARBITRUM |-> FeeData(39, 1, 1)]]

NETWORK_SELECTION_STRATEGY ==
  [small_amount |->
     [USDT |-> <<"SOL", "BSC", "TRC20", "ARBITRUM", "ERC20">>,
      USDC |-> <<"SOL", "BSC", "ARBITRUM", "ERC20">>,
      USD |-> <<"SOL", "BSC", "TRC20", "ARBITRUM", "ERC20">>],
   medium_amount |->
     [USDT |-> <<"BSC", "TRC20", "SOL", "ARBITRUM">>,
      USDC |-> <<"BSC", "SOL", "ARBITRUM">>],
   large_amount |->
     [USDT |-> <<"TRC20", "BSC", "ARBITRUM">>,
      USDC |-> <<"BSC", "ARBITRUM">>]]

\* The tier get_network_strategy picks for a float amount: every comparison
\* with nan is False, so nan falls through to the last branch.
AmountTier(amount) ==
  IF amount # NaN /\ amount < Lit2(1000, 1) THEN "small_amount"
  ELSE IF amount # NaN /\ Lit2(1000, 1) <= amount /\ amount <= Lit2(5000, 1)
    THEN "medium_amount"
  ELSE "large_amount"

\* get_network_strategy, when it returns: .get(currency, []) of the tier.
get_network_strategy(amount, currency) ==
  LET tier == NETWORK_SELECTION_STRATEGY[AmountTier(amount)]
  IN IF currency \in DOMAIN tier THEN tier[currency] ELSE <<>>

\* get_network_strategy raises TypeError when the amount does not compare with
\* an int (a str) or the currency cannot be a dict key.
get_network_strategy_raises(amount, currency) ==
  amount = BadStr \/ currency = Unhashable

(***************************************************************************)
(* main1.py: calc_deposit_cost                                             *)
(***************************************************************************)

\* What calc_deposit_cost returns: (min_cost, best_network, deposit_time).
DepositResult(cost, network, time) == [cost |-> cost, network |-> network, time |-> time]

\* (float('inf'), None, 0)
DepositSentinel == DepositResult(PosInf, NoNetwork, 0)

\* Variant of the loop body that records the cheaper fee but not its network.
DepositStepDropsNetwork(best, target_ex, network) ==
  IF target_ex \in DOMAIN EXCHANGE_DEPOSIT_CONFIG
     /\ network \in DOMAIN EXCHANGE_DEPOSIT_CONFIG[target_ex]
  THEN LET fee_data == EXCHANGE_DEPOSIT_CONFIG[target_ex][network]
       IN IF fee_data.fee < best.cost
          THEN DepositResult(fee_data.fee, best.network, fee_data.time)
          ELSE best
  ELSE best

\* Variant of the comparison under which the first supported network wins.
CostImprovesFirstMatch(cost, min_cost) == min_cost = PosInf

\* `if cost < min_cost`
CostImproves(cost, min_cost) == cost < min_cost

\* One iteration of the loop over the strategy's networks.
DepositStep(best, target_ex, network) ==
  IF target_ex \in DOMAIN EXCHANGE_DEPOSIT_CONFIG
     /\ network \in DOMAIN EXCHANGE_DEPOSIT_CONFIG[target_ex]
  THEN LET fee_data == EXCHANGE_DEPOSIT_CONFIG[target_ex][network]
       IN IF CostImproves(fee_data.fee, best.cost)
          THEN DepositResult(fee_data.fee, network, fee_data.time)
          ELSE best
  ELSE best

RECURSIVE DepositLoop(_, _, _, _)
DepositLoop(strategy, i, best, target_ex) ==
  IF i > Len(strategy) THEN best
  ELSE DepositLoop(strategy, i + 1, DepositStep(best, target_ex, strategy[i]), target_ex)

\* The try block raises: get_network_strategy does, or the membership test
\* `target_ex in EXCHANGE_DEPOSIT_CONFIG` hashes an unhashable target_ex.
calc_deposit_cost_raises(target_ex, amount, currency) ==
  \/ get_network_strategy_raises(amount, currency)
  \/ target_ex = Unhashable /\ get_network_strategy(amount, currency) # <<>>

\* calc_deposit_cost: every exception is caught and turned into the sentinel.
calc_deposit_cost(target_ex, amount, currency) ==
  IF calc_deposit_cost_raises(target_ex, amount, currency) THEN DepositSentinel
  ELSE DepositLoop(get_network_strategy(amount, currency), 1, DepositSentinel, target_ex)

(***************************************************************************)
(* main1.py: find_arbitrage_opportunities                                  *)
(***************************************************************************)

\* `x in pair` for strings: x occurs in pair as a substring.
Contains(pair, x) ==
  \E i \in 1..(Len(pair) - Len(x) + 1) : SubSeq(pair, i, i + Len(x) - 1) = x

LeveragedMarkers == {"3L", "3S", "5L", "5S", "BEAR", "BULL"}

\* any(x in pair for x in ['3L', '3S', '5L', '5S', 'BEAR', 'BULL'])
IsLeveraged(pair) == \E x \in LeveragedMarkers : Contains(pair, x)

\* pair.split('/'): the pieces between the slashes, from position i on, the
\* current piece having started at position start.
RECURSIVE SplitFrom(_, _, _)
SplitFrom(pair, start, i) ==
  IF i > Len(pair) THEN <<SubSeq(pair, start, Len(pair))>>
  ELSE IF SubSeq(pair, i, i) = "/"
    THEN <<SubSeq(pair, start, i - 1)>> \o SplitFrom(pair, i + 1, i + 1)
  ELSE SplitFrom(pair, start, i + 1)

Split(pair) == SplitFrom(pair, 1, 1)

\* Decimal(raw): <<value>>, or <<>> when the constructor raises (None, a
\* string that is no number) or the key is missing.
ParseDecimal(raw) == IF raw \in {None, BadStr, Missing} THEN <<>> ELSE <<raw>>

\* `price <= min_valid_price` with min_valid_price = Decimal('0.000001'): of
\* the multiples of 1/Scale2 those that are not positive, and the tiny price.
BelowMinValidPrice(price) ==
  price = TinyPrice \/ price <= Lit2(1, 1000000)

\* Variant of the invalid-data test without the test of the price ratio.
MarketRejectedIgnoresRatio(buy_price, sell_price, volume, min_volume) ==
  \/ volume < min_volume
  \/ BelowMinValidPrice(buy_price)
  \/ BelowMinValidPrice(sell_price)

\* The invalid-data test of one market, evaluated left to right.
MarketRejected(buy_price, sell_price, volume, min_volume) ==
  \/ volume < min_volume
  \/ BelowMinValidPrice(buy_price)
  \/ BelowMinValidPrice(sell_price)
  \/ Div2(buy_price, sell_price) > Lit2(15, 10)

\* The try block for one (exchange, values): <<market>> when it is kept, <<>>
\* when it is rejected or an exception is caught.  A comparison with a
\* Decimal NaN raises InvalidOperation.
MarketOf(values, min_volume) ==
  LET buy == ParseDecimal(values.buy)
      sell == ParseDecimal(values.sell)
      vol == IF values.volume = Missing THEN <<0>> ELSE ParseDecimal(values.volume)
  IN IF ~values.is_dict \/ buy = <<>> \/ sell = <<>> \/ vol = <<>> THEN <<>>
     ELSE IF NaN \in {buy[1], sell[1], vol[1]} THEN <<>>
     ELSE IF MarketRejected(buy[1], sell[1], vol[1], min_volume) THEN <<>>
     ELSE <<[exchange |-> values.exchange, buy |-> buy[1], sell |-> sell[1],
             volume |-> vol[1]]>>

RECURSIVE MarketsOf(_, _, _)
MarketsOf(exchanges, i, min_volume) ==
  IF i > Len(exchanges) THEN <<>>
  ELSE MarketOf(exchanges[i], min_volume) \o MarketsOf(exchanges, i + 1, min_volume)

\* Variant of the choice of the buy side that takes the last market.
BestBuyMarketLast(markets) == markets[Len(markets)]

\* min(markets, key=lambda x: x['sell']): the first market of least sell.
BestBuyMarket(markets) ==
  LET i == CHOOSE i \in 1..Len(markets) :
             /\ \A j \in 1..Len(markets) : markets[i].sell <= markets[j].sell
             /\ \A j \in 1..(i - 1) : markets[j].sell > markets[i].sell
  IN markets[i]

\* max(markets, key=lambda x: x['buy']): the first market of greatest buy.
BestSellMarket(markets) ==
  LET i == CHOOSE i \in 1..Len(markets) :
             /\ \A j \in 1..Len(markets) : markets[i].buy >= markets[j].buy
             /\ \A j \in 1..(i - 1) : markets[j].buy < markets[i].buy
  IN markets[i]

\* Decimal subtraction x - Decimal(str(deposit_cost)), the cost possibly inf.
MinusCost(x, cost) == IF cost = PosInf THEN NegInf ELSE x - cost

\* Variant of the net-profit test that accepts every pair.
NetProfitAlwaysAccepted(net_profit, min_profit) == TRUE

\* `if net_profit >= min_profit`
NetProfitAccepted(net_profit, min_profit) == net_profit >= min_profit

\* Variant of the spread test that has no upper bound.
SpreadRejectedBelowOnly(spread_pct, min_profit, max_spread_pct) ==
  spread_pct < min_profit

\* `if spread_pct > max_spread_pct or spread_pct < min_profit`
SpreadRejected(spread_pct, min_profit, max_spread_pct) ==
  spread_pct > max_spread_pct \/ spread_pct < min_profit

\* Variant of the slippage protection that divides by 0.8.
EffectiveTokenAmountInflated(token_amount) == Div2(token_amount, Lit2(8, 10))

\* effective_token_amount = token_amount * Decimal('0.8')
EffectiveTokenAmount(token_amount) == Mul2(token_amount, Lit2(8, 10))

\* The loop body from the spread on, for the best buy and sell markets of the
\* pair: what became of the pair, with the deposit lookup made and the
\* opportunity appended (<<>> or <<record>>).
TradeStep(item, cfg, best_buy_market, best_sell_market) ==
  LET spread_pct ==
        Div2(best_sell_market.buy - best_buy_market.sell, best_buy_market.sell) * 100
      capital == cfg.available_capital
      token_amount == Div2(capital, Mul2(best_buy_market.sell, Lit2(1002, 1000)))
      effective_token_amount == EffectiveTokenAmount(token_amount)
      buy_cost == Mul2(best_buy_market.sell, effective_token_amount)
      sell_revenue == Mul2(best_sell_market.buy, effective_token_amount)
      theoretical_profit == sell_revenue - buy_cost
      trade_fee == Mul2(buy_cost + sell_revenue, Lit2(2, 1000))
      pieces == Split(item.pair)
      deposit == calc_deposit_cost(best_sell_market.exchange, sell_revenue, pieces[2])
      net_profit == MinusCost(theoretical_profit - trade_fee, deposit.cost)
      skipped == [outcome |-> "skipped", deposit |-> <<>>, opp |-> <<>>]
  IN IF best_buy_market.exchange = best_sell_market.exchange THEN skipped
     ELSE IF SpreadRejected(spread_pct, cfg.min_profit, cfg.max_spread_pct) THEN skipped
     ELSE IF Len(pieces) < 2 THEN [skipped EXCEPT !.outcome = "raised"]
     ELSE IF ~NetProfitAccepted(net_profit, cfg.min_profit)
       THEN [skipped EXCEPT !.outcome = "unprofitable", !.deposit = <<deposit>>]
     ELSE [outcome |-> "emitted",
           deposit |-> <<deposit>>,
           opp |-> <<[pair |-> item.pair,
                      buy_at |-> best_buy_market.exchange,
                      sell_at |-> best_sell_market.exchange,
                      buy_price |-> best_buy_market.sell,
                      sell_price |-> best_sell_market.buy,
                      token_amount |-> effective_token_amount,
                      theoretical_profit |-> theoretical_profit,
                      net_profit |-> net_profit,
                      deposit_cost |-> deposit.cost,
                      best_net |-> deposit.network,
                      deposit_time |-> deposit.time,
                      spread_pct |-> spread_pct,
                      capital_used |-> buy_cost]>>]

\* The loop body from `if len(markets) < 2` on, for the markets kept.
MarketsStep(item, cfg, markets) ==
  IF Len(markets) < 2 THEN [outcome |-> "skipped", deposit |-> <<>>, opp |-> <<>>]
  ELSE TradeStep(item, cfg, BestBuyMarket(markets), BestSellMarket(markets))

\* The loop body for one (pair, exchanges).
PairStep(item, cfg) ==
  IF ~item.is_dict \/ Len(item.exchanges) < 2 \/ IsLeveraged(item.pair)
  THEN [outcome |-> "skipped", deposit |-> <<>>, opp |-> <<>>]
  ELSE MarketsStep(item, cfg, MarketsOf(item.exchanges, 1, cfg.min_volume))

\* The state of the loop after the pair at index i, with result r, was
\* handled: an exception leaves the loop.
PairHandled(st, pair, r) ==
  [opportunities |-> st.opportunities \o r.opp,
   log |-> Append(st.log, [pair |-> pair, outcome |-> r.outcome, deposit |-> r.deposit]),
   raised |-> r.outcome = "raised"]

\* The loop over data.items() from index i: the opportunities appended, the
\* log of what became of each pair, and whether an exception left the loop.
RECURSIVE SpreadLoop(_, _, _, _)
SpreadLoop(data, i, cfg, st) ==
  IF i > Len(data) \/ st.raised THEN st
  ELSE SpreadLoop(data, i + 1, cfg, PairHandled(st, data[i].pair, PairStep(data[i], cfg)))

\* -x for a float x, possibly infinite.
Neg(x) == IF x = PosInf THEN NegInf ELSE IF x = NegInf THEN PosInf ELSE -x

\* Variant of the key comparison that ignores token_amount.
SpreadKeyLessNoTieBreak(x, y) == Neg(x.net_profit) < Neg(y.net_profit)

\* The sort key (-net_profit, -token_amount) of x is less than that of y.
SpreadKeyLess(x, y) ==
  \/ Neg(x.net_profit) < Neg(y.net_profit)
  \/ /\ x.net_profit = y.net_profit
     /\ Neg(x.token_amount) < Neg(y.token_amount)

\* Where sorted(...) puts x among the already sorted: after every element
\* whose key is not greater (the sort is stable).
RECURSIVE InsertByKey(_, _)
InsertByKey(sorted, x) ==
  IF sorted = <<>> THEN <<x>>
  ELSE IF ~SpreadKeyLess(x, sorted[Len(sorted)]) THEN Append(sorted, x)
  ELSE Append(InsertByKey(SubSeq(sorted, 1, Len(sorted) - 1), x), sorted[Len(sorted)])

\* sorted(opportunities, key=lambda x: (-x['net_profit'], -x['token_amount']))
RECURSIVE SortSpread(_)
SortSpread(opps) ==
  IF opps = <<>> THEN <<>>
  ELSE InsertByKey(SortSpread(SubSeq(opps, 1, Len(opps) - 1)), opps[Len(opps)])

\* The loop of find_arbitrage_opportunities, when it ends or is left.
SpreadLoops(data, cfg) ==
  SpreadLoop(data, 1, cfg, [opportunities |-> <<>>, log |-> <<>>, raised |-> FALSE])

\* find_arbitrage_opportunities: the list it returns (when it returns).
find_arbitrage_opportunities(data, cfg) == SortSpread(SpreadLoops(data, cfg).opportunities)

(***************************************************************************)
(* main1.py: the inputs the spread finder and the deposit optimizer are    *)
(* run on                                                                  *)
(***************************************************************************)

\* Most pairs in one market-data file.
MaxPairs == 2

\* One value of the exchanges dict: {"buy": .., "sell": .., "volume": ..}.
Values(exchange, buy, sell, volume) ==
  [exchange |-> exchange, is_dict |-> TRUE, buy |-> buy, sell |-> sell,
   volume |-> volume]

\* A value of the exchanges dict that is no dict (null).
NotADict(exchange) ==
  [exchange |-> exchange, is_dict |-> FALSE, buy |-> Missing, sell |-> Missing,
   volume |-> Missing]

\* A market quoting bid n/100 and ask m/100 at price level p, volume 5000.
Liquid(exchange, p, n, m) ==
  Values(exchange, Lit2(n * p, 100), Lit2(m * p, 100), Lit2(5000, 1))

\* The exchanges dicts of the universe, at price level p.
Books(p) ==
  { <<Liquid("Binance", p, 99, 100), Liquid("OKX", p, 104, 105)>>,
    <<Liquid("Binance", p, 99, 100), Liquid("Gate", p, 104, 105)>>,
    <<Liquid("OKX", p, 99, 100), NotADict("Gate"), Liquid("HTX", p, 104, 105),
      Values("Binance", BadStr, Lit2(p, 1), Lit2(5000, 1)),
      Values("Bybit", Lit2(p, 1), None, Lit2(5000, 1))>>,
    <<Liquid("Binance", p, 104, 100), Liquid("OKX", p, 100, 105)>>,
    <<Liquid("Binance", p, 99, 100), Liquid("OKX", p, 120, 121)>>,
    <<Values("Binance", Lit2(1795 * p, 1), Lit2(1800 * p, 1), Lit2(5000, 1)),
      Values("OKX", Lit2(1805 * p, 1), Lit2(1810 * p, 1), Lit2(5000, 1))>>,
    <<Values("Binance", Lit2(99 * p, 100), Lit2(p, 1), NaN),
      Values("OKX", Lit2(104 * p, 100), Lit2(105 * p, 100), Lit2(10, 1)),
      Values("HTX", Lit2(104 * p, 100), Lit2(105 * p, 100), Missing),
      Liquid("Gate", p, 104, 105),
      Values("Bybit", TinyPrice, Lit2(p, 1), Lit2(5000, 1)),
      Liquid("KuCoin", p, 160, 100)>>,
    <<Liquid("Binance", p, 0, 100), Liquid("OKX", p, 102, 103),
      Liquid("HTX", p, 99, 101), Liquid("Gate", p, 100, 102)>> }

\* One item of data.items(): the pair name and its exchanges (a dict, or not).
PairItem(pair, is_dict, exchanges) ==
  [pair |-> pair, is_dict |-> is_dict, exchanges |-> exchanges]

\* The pair names of the universe and the price level each trades at.
PairLevels ==
  { <<"ETH/USDT", 1>>, <<"BTC/USDT", 2>>, <<"ETH/USD", 1>>, <<"ETHUSDT", 1>>,
    <<"ETH3L/USDT", 1>> }

PairUniverse ==
  UNION { {PairItem(pl[1], TRUE, b) : b \in Books(pl[2])}
            \cup {PairItem(pl[1], FALSE, <<>>)} : pl \in PairLevels }

\* The market-data files: up to n items over S with distinct pair names (data
\* is a dict keyed by pair).
RECURSIVE MarketFiles(_, _)
MarketFiles(S, n) ==
  IF n = 0 THEN {<<>>}
  ELSE LET shorter == MarketFiles(S, n - 1)
       IN shorter \cup
          { Append(d, x) : d \in {e \in shorter : Len(e) = n - 1},
                           x \in S }

DistinctPairs(d) == \A i, j \in 1..Len(d) : i # j => d[i].pair # d[j].pair

\* The parameters of one call of find_arbitrage_opportunities.
SpreadConfig(min_profit, min_volume, max_spread_pct, available_capital) ==
  [min_profit |-> min_profit, min_volume |-> min_volume,
   max_spread_pct |-> max_spread_pct, available_capital |-> available_capital]

\* The min_profit values: the default 0.5, and -inf.
SpreadMinProfits == {Lit2(5, 10), NegInf}

\* The available_capital values: 100.2, 2004 and 8016 (sell revenue in the
\* small, medium and large tier).
SpreadCapitals == {Lit2(1002, 10), Lit2(2004, 1), Lit2(8016, 1)}

SpreadConfigs ==
  { SpreadConfig(mp, Lit2(1000, 1), Lit2(5, 1), cap) :
      mp \in SpreadMinProfits, cap \in SpreadCapitals }

\* The arguments calc_deposit_cost is called with directly.
DepositExchanges == {"Binance", "OKX", "HTX", "Gate", Unhashable}

DepositAmounts ==
  { Lit2(-1, 1), Lit2(0, 1), Lit2(9999999, 10000), Lit2(1000, 1), Lit2(5000, 1),
    Lit2(50000001, 10000), PosInf, NaN, BadStr }

DepositCurrencies == {"USDT", "USDC", "USD", "EUR", Unhashable}

(***************************************************************************)
(* src/test/okx_data_input.py: fetch_okx_data                              *)
(*                                                                         *)
(* One invocation of fetch_okx_data issues one request.  What the request  *)
(* does is the environment's choice: a response with code '0' and a list   *)
(* of tickers, a response with another code, a requests Timeout, or any    *)
(* other failure (a connection error, an HTTP error status, a body that is *)
(* not the expected JSON).  A percentage is a fixed-point number in units  *)
(* of 1/Scale2; the string f"{x:.2f}%" is the integer number of hundredths *)
(* of a percent.  The "timestamp" of a record is left out.                 *)
(***************************************************************************)

MAX_RETRIES == 3

\* The longest ticker list of a response.
MaxTickers == 2

Ticker(instId, last, open24h) ==
  [instId |-> instId, last |-> last, open24h |-> open24h]

OkxTickers ==
  { Ticker("BTC-USDT", Lit2(101, 1), Lit2(100, 1)),
    Ticker("ETH-USDT", Lit2(995, 10), Lit2(100, 1)),
    Ticker("A-USDT", Lit2(1, 1), 0),
    Ticker("B-USDT", BadStr, Lit2(100, 1)),
    Ticker("C-USDT", Lit2(100, 1), Missing) }

TickerLists == UNION { [1..n -> OkxTickers] : n \in 0..MaxTickers }

Response(kind, data, error) == [kind |-> kind, data |-> data, error |-> error]

\* What one requests.get can come to.
OkxResponses ==
  { Response("success", d, "") : d \in TickerLists }
    \cup { Response("api_error", <<>>, "Exception: API error: " \o m) :
             m \in {"Unknown error", "Too Many Requests"} }
    \cup { Response("timeout", <<>>, "") }
    \cup { Response("failure", <<>>, e) :
             e \in {"ConnectionError", "HTTPError", "JSONDecodeError", "KeyError"} }

\* calculate_price_change(ticker): 0 when a price is missing or unparsable,
\* or the opening price is 0.
calculate_price_change(ticker) ==
  IF ticker.last \in {Missing, None, BadStr} THEN 0
  ELSE IF ticker.open24h \in {Missing, None, BadStr} THEN 0
  ELSE IF ticker.open24h = 0 THEN 0
  ELSE Mul2(Div2(ticker.last - ticker.open24h, ticker.open24h), Lit2(100, 1))

\* f"{x:.2f}%", as hundredths of a percent.
FormatPercent(x) == MulDivRound(x, 100, Scale2)

\* The ticker with its priceChangePercent field.
ProcessTicker(ticker) ==
  [instId |-> ticker.instId, last |-> ticker.last, open24h |-> ticker.open24h,
   priceChangePercent |-> FormatPercent(calculate_price_change(ticker))]

ProcessTickers(data) == [i \in 1..Len(data) |-> ProcessTicker(data[i])]

\* The record fetch_okx_data returns.
OkxRecord(status, data, message, retries) ==
  [status |-> status, data |-> data, message |-> message, retries |-> retries]

\* No record (nothing returned).
NoRecord == OkxRecord("", <<>>, "", 0)

\* What becomes of the invocation fetch_okx_data(retry_count) whose request
\* came to `response`: it returns a record, it calls
\* fetch_okx_data(retry_count + 1) and returns what that returns, or it
\* raises.  The raise of line 68 is inside the handler of
\* requests.exceptions.Timeout, so the next except clause of the same try
\* statement does not catch it, and neither do the invocations below, whose
\* call of line 67 is inside that handler too.
fetch_okx_data(response, retry_count) ==
  IF response.kind = "success"
  THEN [to |-> "returned", retry_count |-> retry_count,
        result |-> OkxRecord("success", ProcessTickers(response.data), "", retry_count)]
  ELSE IF response.kind = "timeout"
  THEN IF retry_count < MAX_RETRIES
       THEN [to |-> "calling", retry_count |-> retry_count + 1, result |-> NoRecord]
       ELSE [to |-> "raised", retry_count |-> retry_count, result |-> NoRecord]
  ELSE [to |-> "returned", retry_count |-> retry_count,
        result |-> OkxRecord("error", <<>>, response.error, retry_count)]

(***************************************************************************)
(* src/测试/exc1.py: ExchangeDataFetcher.fetch_all_data                     *)
(*                                                                         *)
(* time.time() is a number of whole seconds that never decreases.  A       *)
(* request that answers (with data or with an error) takes less than a     *)
(* second; one that times out takes request_timeout seconds.  The tickers  *)
(* an exchange's parser stores are one entry, stamped with the time of     *)
(* parsing as each stored entry is.                                        *)
(***************************************************************************)

cache_duration == 60

request_timeout == 10

\* The keys of exchange_apis, in insertion order.
exchange_apis == <<"OKX", "Binance", "Bitget", "Gate", "MEXC", "HTX">>

\* time.time() when the fetcher is constructed, and the end of the run.
StartTime == 1000
MaxTime == StartTime + 2 * cache_duration

\* The time that passes between two calls.
Waits == {30, 59, 60}

\* What one request can come to: parsed data, a timeout, another failure.
RequestOutcomes == {"ok", "timeout", "error"}

\* The most requests that fail in a pass in which some request answers.
MaxFailures == 1

\* What the requests of one pass come to, exchange by exchange: at most
\* MaxFailures failures, or nothing but timeouts, or nothing but errors.
PassOutcomes ==
  { o \in [1..Len(exchange_apis) -> RequestOutcomes] :
      \/ Cardinality({i \in 1..Len(exchange_apis) : o[i] # "ok"}) <= MaxFailures
      \/ \A i \in 1..Len(exchange_apis) : o[i] = "timeout"
      \/ \A i \in 1..Len(exchange_apis) : o[i] = "error" }

\* self.ticker_data[symbol][exchange] = {..., 'timestamp': int(time.time())}
TickerEntry(exchange, at) == [exchange |-> exchange, timestamp |-> at]

\* The for loop of fetch_all_data from the i-th exchange on: the clock, the
\* data stored and the requests issued so far.
RECURSIVE FetchLoop(_, _, _, _)
FetchLoop(i, outcomes, at, data) ==
  IF i > Len(exchange_apis)
  THEN [finished |-> at, ticker_data |-> data, requests |-> i - 1]
  ELSE IF outcomes[i] = "ok"
  THEN FetchLoop(i + 1, outcomes, at, data \cup {TickerEntry(exchange_apis[i], at)})
  ELSE IF outcomes[i] = "timeout"
  THEN FetchLoop(i + 1, outcomes, at + request_timeout, data)
  ELSE FetchLoop(i + 1, outcomes, at, data)

CacheFreshInclusive(current_time, last_fetch_time) ==
  current_time - last_fetch_time <= cache_duration

\* current_time - self.last_fetch_time < self.cache_duration
CacheFresh(current_time, last_fetch_time) ==
  current_time - last_fetch_time < cache_duration

\* The pass of fetch_all_data (the cache being stale), from a cleared dict.
FetchPass(current_time, outcomes) == FetchLoop(1, outcomes, current_time, {})

\* fetch_all_data() called at current_time: whether it answered from the
\* cache, the requests it issued, the time at its return, the fields it
\* leaves and the data it returns.
fetch_all_data(current_time, last_fetch_time, ticker_data, pass) ==
  IF CacheFresh(current_time, last_fetch_time)
  THEN [cached |-> TRUE, requests |-> 0, finished |-> current_time,
        last_fetch_time |-> last_fetch_time, ticker_data |-> ticker_data]
  ELSE [cached |-> FALSE, requests |-> pass.requests, finished |-> pass.finished,
        last_fetch_time |-> pass.finished, ticker_data |-> pass.ticker_data]

(***************************************************************************)
(* The runs: gas1.py's analysis (Spec), main1.py's spread finder           *)
(* (SpecSpread), a direct call of calc_deposit_cost (SpecDeposit), a call  *)
(* of fetch_okx_data (SpecOkx) and the calls of one ExchangeDataFetcher's  *)
(* fetch_all_data as time passes (SpecCache)                               *)
(***************************************************************************)

VARIABLES
  pc,                \* where the gas1 run is: loaded, preprocessed, built,
                     \* searched; no_prices (nothing valid), raised (an
                     \* uncaught exception); idle in the other runs
  snapshot,          \* the input: instrument_data and price_data
  prices,            \* the dict preprocess_data returned
  valid_count,       \* the items preprocess_data counted valid
  invalid_count,     \* the items preprocess_data counted invalid
  graph,             \* the graph build_currency_graph returned
  graph_min_volume,  \* the min_volume the graph was built with
  search_config,     \* the parameters of find_triangular_arbitrage
  search_log,        \* the paths the search reached, in discovery order
  opportunities,     \* the list find_triangular_arbitrage returned
  spread_pc,         \* where the main1 run is: ready, returned, raised; idle
  market_data,       \* the data find_arbitrage_opportunities is given
  spread_config,     \* its parameters
  spread_log,        \* what became of each pair, in iteration order
  spread_result,     \* the list it returned
  dep_pc,            \* where the calc_deposit_cost call is: ready, returned; idle
  dep_args,          \* <<target_ex, amount, currency>>
  dep_result,        \* what calc_deposit_cost returned
  okx_pc,            \* where the fetch_okx_data call is: calling (an
                     \* invocation is about to issue its request), returned,
                     \* raised (an exception reached the caller); idle
  retry_count,       \* the retry_count of the current invocation
  requests_made,     \* the requests issued since the call began
  okx_outcomes,      \* what each request came to, in order
  okx_result,        \* the record fetch_okx_data returned
  now,               \* time.time()
  last_fetch_time,   \* self.last_fetch_time
  ticker_data,       \* self.ticker_data
  last_pass,         \* the last fetch pass: whether there was one, when it
                     \* finished, what it stored
  last_call          \* the last call of fetch_all_data: when it was made,
                     \* the requests it issued, what it returned, the fetch
                     \* pass before it and the data stored before it

tri_vars ==
  <<pc, snapshot, prices, valid_count, invalid_count, graph, graph_min_volume, search_config, search_log,
    opportunities>>

spread_vars == <<spread_pc, market_data, spread_config, spread_log, spread_result>>

dep_vars == <<dep_pc, dep_args, dep_result>>

okx_vars == <<okx_pc, retry_count, requests_made, okx_outcomes, okx_result>>

cache_vars == <<now, last_fetch_time, ticker_data, last_pass, last_call>>

vars == <<tri_vars, spread_vars, dep_vars, okx_vars, cache_vars>>

\* The gas1 variables before (or without) a run.
TriIdle(at) ==
  /\ pc = at
  /\ prices = <<>>
  /\ valid_count = 0
  /\ invalid_count = 0
  /\ graph = EmptyGraph
  /\ graph_min_volume = D(0)
  /\ search_config = SearchConfig("USDT", 0, 0, 0)
  /\ search_log = <<>>
  /\ opportunities = <<>>

\* The spread finder's variables before (or without) a call.
SpreadIdle(at) ==
  /\ spread_pc = at
  /\ spread_config = SpreadConfig(0, 0, 0, 0)
  /\ spread_log = <<>>
  /\ spread_result = <<>>

\* The deposit call's variables before (or without) a call.
DepIdle(at) ==
  /\ dep_pc = at
  /\ dep_result = DepositSentinel

\* The fetch_okx_data call's variables before (or without) a call.
OkxIdle(at) ==
  /\ okx_pc = at
  /\ retry_count = 0
  /\ requests_made = 0
  /\ okx_outcomes = <<>>
  /\ okx_result = NoRecord

\* No fetch pass yet, and no call of fetch_all_data.
NoPass == [done |-> FALSE, finished |-> 0, ticker_data |-> {}]

NoCall ==
  [made |-> FALSE, cached |-> FALSE, at |-> 0, requests |-> 0, returned |-> {},
   previous |-> NoPass, stored |-> {}]

\* ExchangeDataFetcher.__init__ at the time `at`.
CacheInit(at) ==
  /\ now = at
  /\ last_fetch_time = 0
  /\ ticker_data = {}
  /\ last_pass = NoPass
  /\ last_call = NoCall

Init ==
  /\ TriIdle("loaded")
  /\ snapshot \in Snapshots(EntryUniverse, MaxEntries)
  /\ SpreadIdle("idle") /\ market_data = <<>>
  /\ DepIdle("idle") /\ dep_args = <<"", 0, "">>
  /\ OkxIdle("idle")
  /\ CacheInit(0)

\* prices = preprocess_data(price_data, instrument_data); the run ends when
\* nothing valid is left.
Preprocess ==
  /\ pc = "loaded"
  /\ \E st \in {PriceLoops(snapshot)} :
       /\ prices' = st.prices
       /\ valid_count' = st.valid_count
       /\ invalid_count' = st.invalid_count
  /\ pc' = IF prices' = <<>> THEN "no_prices" ELSE "preprocessed"
  /\ UNCHANGED <<snapshot, graph, graph_min_volume, search_config, search_log,
                 opportunities, spread_vars, dep_vars, okx_vars, cache_vars>>

\* graph = build_currency_graph(prices, min_volume)
BuildGraph ==
  /\ pc = "preprocessed"
  /\ \E mv \in GraphMinVolumes :
       /\ graph_min_volume' = mv
       /\ IF build_currency_graph_raises(prices)
          THEN pc' = "raised" /\ graph' = graph
          ELSE pc' = "built" /\ graph' = build_currency_graph(prices, mv)
  /\ UNCHANGED <<snapshot, prices, valid_count, invalid_count, search_config,
                 search_log, opportunities, spread_vars, dep_vars,
                 okx_vars, cache_vars>>

\* opportunities = find_triangular_arbitrage(graph, ...)
FindTriangular ==
  /\ pc = "built"
  /\ \E cfg \in SearchConfigs : \E st \in {SearchLoops(graph, cfg)} :
       /\ search_config' = cfg
       /\ search_log' = st.log
       /\ opportunities' = SortByProfit(st.opportunities)
  /\ pc' = "searched"
  /\ UNCHANGED <<snapshot, prices, valid_count, invalid_count, graph,
                 graph_min_volume, spread_vars, dep_vars, okx_vars, cache_vars>>

Next == Preprocess \/ BuildGraph \/ FindTriangular

Spec == Init /\ [][Next]_vars

InitSpread ==
  /\ TriIdle("idle") /\ snapshot = <<>>
  /\ SpreadIdle("ready")
  /\ market_data \in {d \in MarketFiles(PairUniverse, MaxPairs) : DistinctPairs(d)}
  /\ DepIdle("idle") /\ dep_args = <<"", 0, "">>
  /\ OkxIdle("idle")
  /\ CacheInit(0)

\* opportunities = find_arbitrage_opportunities(data, ...)
FindArbitrage ==
  /\ spread_pc = "ready"
  /\ \E cfg \in SpreadConfigs : \E st \in {SpreadLoops(market_data, cfg)} :
       /\ spread_config' = cfg
       /\ spread_log' = st.log
       /\ IF st.raised
          THEN spread_pc' = "raised" /\ spread_result' = <<>>
          ELSE spread_pc' = "returned"
               /\ spread_result' = SortSpread(st.opportunities)
  /\ UNCHANGED <<market_data, tri_vars, dep_vars, okx_vars, cache_vars>>

NextSpread == FindArbitrage

SpecSpread == InitSpread /\ [][NextSpread]_vars

InitDeposit ==
  /\ TriIdle("idle") /\ snapshot = <<>>
  /\ SpreadIdle("idle") /\ market_data = <<>>
  /\ DepIdle("ready")
  /\ dep_args \in DepositExchanges \X DepositAmounts \X DepositCurrencies
  /\ OkxIdle("idle")
  /\ CacheInit(0)

\* calc_deposit_cost(target_ex, amount, currency)
CalcDeposit ==
  /\ dep_pc = "ready"
  /\ dep_result' = calc_deposit_cost(dep_args[1], dep_args[2], dep_args[3])
  /\ dep_pc' = "returned"
  /\ UNCHANGED <<dep_args, tri_vars, spread_vars, okx_vars, cache_vars>>

NextDeposit == CalcDeposit

SpecDeposit == InitDeposit /\ [][NextDeposit]_vars

InitOkx ==
  /\ TriIdle("idle") /\ snapshot = <<>>
  /\ SpreadIdle("idle") /\ market_data = <<>>
  /\ DepIdle("idle") /\ dep_args = <<"", 0, "">>
  /\ OkxIdle("calling")
  /\ CacheInit(0)

\* One invocation of fetch_okx_data(retry_count): its request and what it
\* does with the response.
FetchOkxData ==
  /\ okx_pc = "calling"
  /\ \E response \in OkxResponses : \E st \in {fetch_okx_data(response, retry_count)} :
       /\ requests_made' = requests_made + 1
       /\ okx_outcomes' = Append(okx_outcomes, response.kind)
       /\ okx_pc' = st.to
       /\ retry_count' = st.retry_count
       /\ okx_result' = st.result
  /\ UNCHANGED <<tri_vars, spread_vars, dep_vars, cache_vars>>

NextOkx == FetchOkxData

SpecOkx == InitOkx /\ [][NextOkx]_vars

InitCache ==
  /\ TriIdle("idle") /\ snapshot = <<>>
  /\ SpreadIdle("idle") /\ market_data = <<>>
  /\ DepIdle("idle") /\ dep_args = <<"", 0, "">>
  /\ OkxIdle("idle")
  /\ CacheInit(StartTime)

\* Time passes between two calls.
Tick ==
  /\ \E w \in Waits : now + w <= MaxTime /\ now' = now + w
  /\ UNCHANGED <<last_fetch_time, ticker_data, last_pass, last_call, tri_vars,
                 spread_vars, dep_vars, okx_vars>>

\* fetcher.fetch_all_data()
FetchAllData ==
  /\ \E outcomes \in PassOutcomes :
     \E st \in {fetch_all_data(now, last_fetch_time, ticker_data,
                               FetchPass(now, outcomes))} :
       /\ st.finished <= MaxTime
       /\ now' = st.finished
       /\ last_fetch_time' = st.last_fetch_time
       /\ ticker_data' = st.ticker_data
       /\ last_pass' = IF st.cached THEN last_pass
                       ELSE [done |-> TRUE, finished |-> st.finished,
                             ticker_data |-> st.ticker_data]
       /\ last_call' = [made |-> TRUE, cached |-> st.cached, at |-> now,
                        requests |-> st.requests, returned |-> st.ticker_data,
                        previous |-> last_pass, stored |-> ticker_data]
  /\ UNCHANGED <<tri_vars, spread_vars, dep_vars, okx_vars>>

NextCache == Tick \/ FetchAllData

SpecCache == InitCache /\ [][NextCache]_vars

(***************************************************************************)
(* Properties                                                              *)
(***************************************************************************)

\* The edges of the graph.
GraphEdges ==
  UNION { {graph[c][i] : i \in 1..Len(graph[c])} : c \in DOMAIN graph }

\* The volume a price record offers in a direction: bid_sz for the sell leg,
\* ask_sz * buy_price for the buy leg.
DirectionVolume(rec, type) ==
  IF type = "sell" THEN rec.bid_sz ELSE DMul(rec.ask_sz, rec.buy_price)

\* C1: every edge of the graph build_currency_graph returned carries the
\* volume of its own direction of the record it comes from (bid_sz for a sell
\* edge, ask_sz * buy_price for a buy edge) and that volume is at least
\* min_volume; a direction of a record whose volume is below min_volume has no
\* edge in the graph.
GraphLiquidity ==
  pc \in {"built", "searched"} =>
    /\ \A e \in GraphEdges :
         /\ e.volume >= graph_min_volume
         /\ \E i \in 1..Len(prices) :
              /\ prices[i].inst_id = e.inst_id
              /\ e.volume = DirectionVolume(prices[i], e.type)
    /\ \A i \in 1..Len(prices) : \A type \in {"sell", "buy"} :
         DirectionVolume(prices[i], type) < graph_min_volume =>
           ~ \E e \in GraphEdges : e.inst_id = prices[i].inst_id /\ e.type = type

\* A graph built with min_volume 100 from a record whose bid_sz is below 100:
\* its buy edge is in the graph, its sell edge is not.
GraphLiquidityWitness ==
  /\ pc = "built"
  /\ graph_min_volume = D(100)
  /\ \E i \in 1..Len(prices) :
       /\ prices[i].bid_sz < D(100)
       /\ \E e \in GraphEdges : e.inst_id = prices[i].inst_id /\ e.type = "buy"
       /\ ~ \E e \in GraphEdges : e.inst_id = prices[i].inst_id /\ e.type = "sell"

\* C2: every opportunity find_triangular_arbitrage returned has a path of
\* exactly 3 edges that chains start -> c1 -> c2 -> start, with start, c1 and
\* c2 pairwise distinct.
CycleCorrect ==
  pc = "searched" =>
    \A i \in 1..Len(opportunities) :
      LET path == opportunities[i].path
          start == search_config.start_currency
          c1 == path[1].to
          c2 == path[2].to
      IN /\ Len(path) = 3
         /\ path[1].from = start
         /\ path[2].from = c1
         /\ path[3].from = c2
         /\ path[3].to = start
         /\ start # c1 /\ start # c2 /\ c1 # c2

\* C3: every slippage_impact the search applied to the amount lies in
\* [0, 0.1], also where the exponent's magnitude exceeds 20 and decimal_exp
\* returns its limit.
SlippageCap ==
  pc = "searched" =>
    \A k \in 1..Len(search_log) : \A s \in 1..Len(search_log[k].slippage) :
      LET impact == search_log[k].slippage[s].slippage_impact
      IN D(0) <= impact /\ impact <= Lit(1, 10)

\* A step whose exponent is beyond 20 in magnitude was computed, and the
\* impact applied to it is the cap.
SlippageCapWitness ==
  /\ pc = "searched"
  /\ \E k \in 1..Len(search_log) : \E s \in 1..Len(search_log[k].slippage) :
       /\ Abs(search_log[k].slippage[s].exponent) > D(20)
       /\ search_log[k].slippage[s].raw_impact > Lit(1, 10)
       /\ search_log[k].slippage[s].slippage_impact = Lit(1, 10)

\* The direct call's result is one of the two shapes calc_deposit_cost may
\* return for target exchange ex.
DepositResultWellFormed(ex, r) ==
  \/ r = DepositSentinel
  \/ /\ IsFinite(r.cost)
     /\ ex \in DOMAIN EXCHANGE_DEPOSIT_CONFIG
     /\ r.network \in DOMAIN EXCHANGE_DEPOSIT_CONFIG[ex]
     /\ r.cost = EXCHANGE_DEPOSIT_CONFIG[ex][r.network].fee
     /\ r.time = EXCHANGE_DEPOSIT_CONFIG[ex][r.network].time

\* C4: calc_deposit_cost returns either a finite cost with a network that is a
\* key of the target exchange's fee table, the cost and time being that
\* network's fee and time, or exactly (infinity, None, 0).
DepositTotality ==
  dep_pc = "returned" => DepositResultWellFormed(dep_args[1], dep_result)

\* A call that returned a finite cost over a network, for an amount in the
\* medium tier.
DepositTotalityWitness ==
  /\ dep_pc = "returned"
  /\ dep_args[2] = Lit2(1000, 1)
  /\ IsFinite(dep_result.cost)
  /\ dep_result.network # NoNetwork

\* The min_profit values the search is run with.
MinProfits == {cfg.min_profit : cfg \in SearchConfigs}

\* The opportunities as a set.
Range(seq) == {seq[i] : i \in 1..Len(seq)}

\* The list the search returns on the current graph with min_profit replaced.
SearchWithMinProfit(min_profit) ==
  find_triangular_arbitrage(graph, [search_config EXCEPT !.min_profit = min_profit])

\* C6: on a fixed graph, with the other parameters fixed, the opportunities
\* returned with a higher min_profit are a subset of those returned with a
\* lower one, and are not more of them.
ProfitMonotone ==
  pc = "searched" =>
    \A min_profit \in MinProfits :
      LET other == SearchWithMinProfit(min_profit)
      IN /\ min_profit <= search_config.min_profit =>
              /\ Range(opportunities) \subseteq Range(other)
              /\ Len(opportunities) <= Len(other)
         /\ min_profit >= search_config.min_profit =>
              /\ Range(other) \subseteq Range(opportunities)
              /\ Len(other) <= Len(opportunities)

\* A search that returned something, where a lower min_profit returns more.
ProfitMonotoneWitness ==
  /\ pc = "searched"
  /\ opportunities # <<>>
  /\ \E min_profit \in MinProfits :
       /\ min_profit < search_config.min_profit
       /\ Len(SearchWithMinProfit(min_profit)) > Len(opportunities)

\* C7: on any input, malformed records and pair names of unexpected shape
\* included, find_arbitrage_opportunities does not raise.
SpreadNeverRaises == spread_pc # "raised"

\* C8: a pair for which calc_deposit_cost returned the infinite-cost sentinel
\* raises no exception and is not in the returned list, whatever min_profit.
InfiniteDepositExcluded ==
  spread_pc \in {"returned", "raised"} =>
    \A k \in 1..Len(spread_log) :
      (spread_log[k].deposit # <<>> /\ spread_log[k].deposit[1].cost = PosInf) =>
        /\ spread_log[k].outcome # "raised"
        /\ \A i \in 1..Len(spread_result) :
             spread_result[i].pair # spread_log[k].pair

\* Where in the search the path of an opportunity was discovered.
DiscoveryIndex(opp) ==
  CHOOSE k \in 1..Len(search_log) :
    /\ search_log[k].outcome = "emitted"
    /\ search_log[k].c1 = opp.path[1].to
    /\ search_log[k].c2 = opp.path[2].to

\* C9: the list find_triangular_arbitrage returned is in non-increasing order
\* of the rounded profit_percent, and opportunities of equal rounded
\* profit_percent are in the order their paths were discovered.
SortedByProfit ==
  pc = "searched" =>
    \A i, j \in 1..Len(opportunities) :
      i < j =>
        /\ opportunities[i].profit_percent >= opportunities[j].profit_percent
        /\ opportunities[i].profit_percent = opportunities[j].profit_percent =>
             DiscoveryIndex(opportunities[i]) < DiscoveryIndex(opportunities[j])

\* A returned list with two opportunities of equal rounded profit_percent
\* and a third of a different one.
SortedByProfitWitness ==
  /\ pc = "searched"
  /\ \E i, j \in 1..Len(opportunities) :
       /\ i < j
       /\ opportunities[i].profit_percent = opportunities[j].profit_percent
       /\ opportunities[i].path # opportunities[j].path

\* C10: the list find_arbitrage_opportunities returned is in non-increasing
\* order of net_profit, and opportunities of equal net_profit are in
\* non-increasing order of token_amount.
SpreadSorted ==
  spread_pc = "returned" =>
    \A i, j \in 1..Len(spread_result) :
      i < j =>
        /\ spread_result[i].net_profit >= spread_result[j].net_profit
        /\ spread_result[i].net_profit = spread_result[j].net_profit =>
             spread_result[i].token_amount >= spread_result[j].token_amount

\* Two opportunities of equal net_profit were returned, the one of greater
\* token_amount first although it came second in the data.
SpreadSortedWitness ==
  /\ spread_pc = "returned"
  /\ Len(spread_result) = 2
  /\ spread_result[1].net_profit = spread_result[2].net_profit
  /\ spread_result[1].token_amount > spread_result[2].token_amount
  /\ market_data[1].pair = spread_result[2].pair

\* The networks that are both in the preference list of the amount's tier for
\* the currency and in the fee table of the target exchange.
DepositCandidates(target_ex, amount, currency) ==
  IF get_network_strategy_raises(amount, currency) THEN {}
  ELSE IF target_ex \notin DOMAIN EXCHANGE_DEPOSIT_CONFIG THEN {}
  ELSE {n \in Range(get_network_strategy(amount, currency)) :
          n \in DOMAIN EXCHANGE_DEPOSIT_CONFIG[target_ex]}

\* C11: calc_deposit_cost returns the least fee over the networks that are both
\* in the preference list and in the target exchange's fee table, with the
\* network that charges it and that network's time (the sentinel when there is
\* no such network): no candidate is cheaper than the network returned,
\* wherever it stands in the preference list.
DepositCheapest ==
  dep_pc = "returned" =>
    LET target_ex == dep_args[1]
        candidates == DepositCandidates(target_ex, dep_args[2], dep_args[3])
    IN IF candidates = {} THEN dep_result = DepositSentinel
       ELSE /\ dep_result.network \in candidates
            /\ dep_result.cost = EXCHANGE_DEPOSIT_CONFIG[target_ex][dep_result.network].fee
            /\ dep_result.time = EXCHANGE_DEPOSIT_CONFIG[target_ex][dep_result.network].time
            /\ \A n \in candidates :
                 dep_result.cost <= EXCHANGE_DEPOSIT_CONFIG[target_ex][n].fee

\* A call whose preference list starts with a supported network that is more
\* expensive than a later one: the later, cheaper one was returned.
DepositCheapestWitness ==
  /\ dep_pc = "returned"
  /\ ~get_network_strategy_raises(dep_args[2], dep_args[3])
  /\ LET strategy == get_network_strategy(dep_args[2], dep_args[3])
     IN /\ strategy # <<>>
        /\ strategy[1] \in DepositCandidates(dep_args[1], dep_args[2], dep_args[3])
        /\ dep_result.network # strategy[1]
        /\ dep_result.cost < EXCHANGE_DEPOSIT_CONFIG[dep_args[1]][strategy[1]].fee

\* The item of the market data an opportunity was computed from.
ItemOf(opp) ==
  market_data[CHOOSE k \in 1..Len(market_data) : market_data[k].pair = opp.pair]

\* The exchanges dict quotes ask 1800 / bid 1795 on one exchange and ask 1810 /
\* bid 1805 on another, volumes above min_volume.
NarrowBook(exchanges) ==
  /\ Len(exchanges) = 2
  /\ \A k \in 1..2 : exchanges[k].is_dict /\ exchanges[k].volume = Lit2(5000, 1)
  /\ exchanges[1].sell = Lit2(1800, 1) /\ exchanges[1].buy = Lit2(1795, 1)
  /\ exchanges[2].sell = Lit2(1810, 1) /\ exchanges[2].buy = Lit2(1805, 1)

\* C12: every opportunity find_arbitrage_opportunities returned has
\* spread_pct = (sell_price - buy_price) / buy_price * 100, sell_price being
\* the bid it sells at and buy_price the ask it buys at, and
\* min_profit <= spread_pct <= max_spread_pct; a pair quoted ask 1800 / bid
\* 1795 and ask 1810 / bid 1805 is not returned when min_profit is 0.5.
SpreadInRange ==
  spread_pc = "returned" =>
    /\ \A i \in 1..Len(spread_result) :
         LET opp == spread_result[i]
         IN /\ opp.spread_pct = Div2(opp.sell_price - opp.buy_price, opp.buy_price) * 100
            /\ spread_config.min_profit <= opp.spread_pct
            /\ opp.spread_pct <= spread_config.max_spread_pct
    /\ spread_config.min_profit = Lit2(5, 10) =>
         \A k \in 1..Len(market_data) :
           NarrowBook(market_data[k].exchanges) =>
             \A i \in 1..Len(spread_result) :
               spread_result[i].pair # market_data[k].pair

\* A call with min_profit 0.5 on a pair of the narrow quotes and a pair of
\* wider ones: the wider pair alone was returned.
SpreadInRangeWitness ==
  /\ spread_pc = "returned"
  /\ spread_config.min_profit = Lit2(5, 10)
  /\ Len(market_data) = 2
  /\ NarrowBook(market_data[1].exchanges)
  /\ ~IsLeveraged(market_data[1].pair)
  /\ Len(spread_result) = 1
  /\ spread_result[1].pair = market_data[2].pair
  /\ spread_result[1].spread_pct > Lit2(5, 10)

\* The item's ask or bid price is a number that is zero or negative.
NonPositivePrice(item) ==
  \/ IsFinite(item.askPx) /\ item.askPx <= 0
  \/ IsFinite(item.bidPx) /\ item.bidPx <= 0

\* The item is listed with a non-zero price increment and quotes two positive
\* prices.
PositivePrices(item) ==
  /\ item.listed /\ item.price_precision # 0
  /\ IsFinite(item.askPx) /\ item.askPx > 0
  /\ IsFinite(item.bidPx) /\ item.bidPx > 0

\* C13: an item whose bid or ask price is zero or negative has no record in
\* the prices preprocess_data returned and no edge in the graph built from
\* them, it is counted in invalid_count, and the batch goes on: every item is
\* counted valid or invalid, and every well-formed item of positive prices has
\* its record, wherever it stands in the batch.
NonPositiveRejected ==
  pc # "loaded" =>
    /\ prices = preprocess_data(snapshot)
    /\ \A i \in 1..Len(snapshot) :
         NonPositivePrice(snapshot[i]) =>
           /\ \A k \in 1..Len(prices) : prices[k].inst_id # snapshot[i].instId
           /\ \A e \in GraphEdges : e.inst_id # snapshot[i].instId
    /\ invalid_count >= Cardinality({i \in 1..Len(snapshot) : NonPositivePrice(snapshot[i])})
    /\ valid_count + invalid_count = Len(snapshot)
    /\ valid_count = Len(prices)
    /\ \A j \in 1..Len(snapshot) :
         PositivePrices(snapshot[j]) =>
           \E k \in 1..Len(prices) : prices[k].inst_id = snapshot[j].instId

\* A batch that starts with an item of bid price 0 and ask price 100: it is
\* the one item counted invalid, and the graph has the edges of the item after
\* it.
NonPositiveRejectedWitness ==
  /\ pc = "built"
  /\ Len(snapshot) >= 2
  /\ snapshot[1].bidPx = D(0) /\ snapshot[1].askPx = D(100)
  /\ invalid_count = 1
  /\ \E e \in GraphEdges : e.inst_id = snapshot[2].instId

\* The least of the volumes of the edges of a path.
LeastVolume(path) ==
  CHOOSE v \in {path[k].volume : k \in 1..3} :
    \A k \in 1..3 : v <= path[k].volume

\* C14: every opportunity find_triangular_arbitrage returned passes every
\* filter: no edge of its path has a negative slippage_percent or a rate that
\* is not positive, the slippage_percent of its three edges sum to at most
\* max_slippage (and that sum is its total_slippage), its unrounded profit,
\* (final_amount - 1) * 100 with final_amount the product of the three
\* effective multipliers, is at least min_profit, and its path_volume is the
\* least of the three edges' volumes and at least min_volume.
AllFiltersHold ==
  pc = "searched" =>
    \A i \in 1..Len(opportunities) :
      LET opp == opportunities[i]
          path == opp.path
      IN /\ \A k \in 1..3 : path[k].slippage_percent >= D(0) /\ path[k].rate > D(0)
         /\ opp.total_slippage =
              path[1].slippage_percent + path[2].slippage_percent
                + path[3].slippage_percent
         /\ opp.total_slippage <= search_config.max_slippage
         /\ opp.final_amount = AmountAfter(path, PathSlippage(path), 3)
         /\ opp.final_amount - D(1) >= search_config.min_profit
         /\ opp.path_volume = LeastVolume(path)
         /\ opp.path_volume >= search_config.min_volume

\* A search with min_profit 0.01, min_volume 80 and max_slippage 1 that
\* returned an opportunity of positive total slippage whose path_volume is
\* below the volume of one of its edges.
AllFiltersHoldWitness ==
  /\ pc = "searched"
  /\ search_config.min_volume = D(80)
  /\ \E i \in 1..Len(opportunities) :
       /\ opportunities[i].total_slippage > D(0)
       /\ \E k \in 1..3 :
            opportunities[i].path[k].volume > opportunities[i].path_volume

\* The path passes the data guard, the total-slippage filter, the min_volume
\* filter and the min_profit filter.
PassesFilters(path, cfg) ==
  /\ \A k \in 1..3 : path[k].slippage_percent >= D(0) /\ path[k].rate > D(0)
  /\ path[1].slippage_percent + path[2].slippage_percent + path[3].slippage_percent
       <= cfg.max_slippage
  /\ LeastVolume(path) >= D(0)
  /\ LeastVolume(path) >= cfg.min_volume
  /\ AmountAfter(path, PathSlippage(path), 3) - D(1) >= cfg.min_profit

\* The candidate paths of the graph from start: edges start -> c1, c1 -> c2
\* with c2 # start, and c2 -> start.
CandidatePaths(start) ==
  { <<first_step, second_step, third_step>> :
      <<first_step, second_step, third_step>> \in
        { t \in GraphEdges \X GraphEdges \X GraphEdges :
            /\ t[1].from = start
            /\ t[2].from = t[1].to /\ t[2].to # start
            /\ t[3].from = t[2].to /\ t[3].to = start } }

\* C15: for every candidate path of the graph that passes the data guard and
\* the slippage, profit and volume filters, exactly one opportunity of the
\* list find_triangular_arbitrage returned has that path.
SearchComplete ==
  pc = "searched" =>
    \A path \in CandidatePaths(search_config.start_currency) :
      PassesFilters(path, search_config) =>
        Cardinality({i \in 1..Len(opportunities) : opportunities[i].path = path}) = 1

\* C16: the de-duplication evaluates each pair (c1, c2) once: no two of the
\* paths the search evaluated have the same (c1, c2), and every path it
\* skipped for its key has the (c1, c2) of a path evaluated before it.
DedupExact ==
  pc = "searched" =>
    /\ \A k, l \in 1..Len(search_log) :
         (k < l /\ search_log[k].outcome # "duplicate"
                /\ search_log[l].outcome # "duplicate") =>
           <<search_log[k].c1, search_log[k].c2>> # <<search_log[l].c1, search_log[l].c2>>
    /\ \A l \in 1..Len(search_log) :
         search_log[l].outcome = "duplicate" =>
           \E k \in 1..(l - 1) :
             /\ search_log[k].outcome # "duplicate"
             /\ search_log[k].c1 = search_log[l].c1
             /\ search_log[k].c2 = search_log[l].c2

\* C17: every listed item of positive prices whose price increment is zero
\* has its record in the prices preprocess_data returned, with price_units 0,
\* whatever its spread; and a record of zero mid price has slippage_percent 0.
ZeroIncrementKept ==
  pc # "loaded" =>
    /\ \A i \in 1..Len(snapshot) :
         LET item == snapshot[i]
         IN (/\ item.listed /\ item.price_precision = D(0)
             /\ IsFinite(item.askPx) /\ item.askPx > 0
             /\ IsFinite(item.bidPx) /\ item.bidPx > 0) =>
              \E k \in 1..Len(prices) :
                /\ prices[k].inst_id = item.instId
                /\ prices[k].price_units = D(0)
    /\ \A k \in 1..Len(prices) :
         prices[k].mid_price = 0 => prices[k].slippage_percent = D(0)

\* The legs of the price records: <<i, type>> is the sell or the buy leg of
\* prices[i]; the loop handles record i before record j > i, and the sell leg
\* of a record before its buy leg.
Legs == (1..Len(prices)) \X {"sell", "buy"}

LegEdge(w) == IF w[2] = "sell" THEN SellEdge(prices[w[1]]) ELSE BuyEdge(prices[w[1]])

LegPasses(w) == DirectionVolume(prices[w[1]], w[2]) >= graph_min_volume

LegBefore(v, w) == v[1] < w[1] \/ (v[1] = w[1] /\ v[2] = "sell" /\ w[2] = "buy")

\* The legs from currency c to currency to.
LegsOf(c, to) == {w \in Legs : LegEdge(w).from = c /\ LegEdge(w).to = to}

\* C18: for each directed pair (from, to), the graph build_currency_graph
\* returned holds the edge of the last leg in that direction, in iteration
\* order of the price records, that passed the liquidity threshold, and no
\* edge when no leg in that direction passed it; legs that fail the threshold
\* change nothing, wherever they stand.
LastWriteWins ==
  pc \in {"built", "searched"} =>
    \A c, to \in Currencies :
      LET passing == {w \in LegsOf(c, to) : LegPasses(w)}
      IN IF passing = {} THEN EdgeOf(graph, c, to) = <<>>
         ELSE \E w \in passing :
                /\ \A v \in passing : v = w \/ LegBefore(v, w)
                /\ EdgeOf(graph, c, to) = <<LegEdge(w)>>

\* A graph built with min_volume 100 in which one direction has two passing
\* legs of different records, the later one stored, and another direction has
\* a passing leg followed by a failing leg of a later record, the earlier one
\* stored.
LastWriteWinsWitness ==
  /\ pc = "built"
  /\ graph_min_volume = D(100)
  /\ \E c, to \in Currencies : \E v, w \in LegsOf(c, to) :
       /\ v[1] < w[1] /\ LegPasses(v) /\ LegPasses(w)
       /\ EdgeOf(graph, c, to) = <<LegEdge(w)>>
  /\ \E c, to \in Currencies : \E v, w \in LegsOf(c, to) :
       /\ v[1] < w[1] /\ LegPasses(v) /\ ~LegPasses(w)
       /\ EdgeOf(graph, c, to) = <<LegEdge(v)>>

\* The markets of an item that survive the validity filter of the call.
Survivors(item) == MarketsOf(item.exchanges, 1, spread_config.min_volume)

\* One surviving market has both the strictly lowest ask and the strictly
\* highest bid.
BestCoincide(markets) ==
  \E x \in 1..Len(markets) : \A j \in 1..Len(markets) :
    j # x => markets[x].sell < markets[j].sell /\ markets[x].buy > markets[j].buy

\* C19: every opportunity find_arbitrage_opportunities returned comes from a
\* pair with at least 2 surviving markets, buys at a surviving market whose
\* ask ('sell') is the lowest at that ask, sells at a surviving market whose
\* bid ('buy') is the highest at that bid, and has buy_at # sell_at; a pair
\* whose best buy and best sell market are the same market is not returned.
BestMarkets ==
  spread_pc = "returned" =>
    /\ \A i \in 1..Len(spread_result) :
         LET opp == spread_result[i]
             markets == Survivors(ItemOf(opp))
         IN /\ Len(markets) >= 2
            /\ opp.buy_at # opp.sell_at
            /\ \E b \in 1..Len(markets) :
                 /\ markets[b].exchange = opp.buy_at
                 /\ markets[b].sell = opp.buy_price
                 /\ \A j \in 1..Len(markets) : markets[b].sell <= markets[j].sell
            /\ \E b \in 1..Len(markets) :
                 /\ markets[b].exchange = opp.sell_at
                 /\ markets[b].buy = opp.sell_price
                 /\ \A j \in 1..Len(markets) : markets[b].buy >= markets[j].buy
    /\ \A k \in 1..Len(market_data) :
         (Len(Survivors(market_data[k])) >= 2 /\ BestCoincide(Survivors(market_data[k]))) =>
           \A i \in 1..Len(spread_result) : spread_result[i].pair # market_data[k].pair

\* A call on two pairs: the first has three surviving markets and was
\* returned, bought at the second of them and sold at the first; the second
\* has its lowest ask and its highest bid on one exchange and was not returned.
BestMarketsWitness ==
  /\ spread_pc = "returned"
  /\ Len(market_data) = 2
  /\ Len(spread_result) = 1
  /\ spread_result[1].pair = market_data[1].pair
  /\ LET markets == Survivors(market_data[1])
     IN /\ Len(markets) = 3
        /\ spread_result[1].buy_at = markets[2].exchange
        /\ spread_result[1].sell_at = markets[1].exchange
  /\ Len(Survivors(market_data[2])) >= 2
  /\ BestCoincide(Survivors(market_data[2]))

\* C20: every opportunity find_arbitrage_opportunities returned has
\* net_profit = theoretical_profit - trade_fee - deposit_cost >= min_profit,
\* where theoretical_profit is the sell notional less the buy notional (the
\* token amount times the bid less the ask, to the resolution of the
\* arithmetic), trade_fee is 0.2% of the two notionals together, and
\* deposit_cost, best_net and deposit_time are what calc_deposit_cost returns
\* for the sell-side exchange, the sell notional and the pair's quote currency.
NetProfitCorrect ==
  spread_pc = "returned" =>
    \A i \in 1..Len(spread_result) :
      LET opp == spread_result[i]
          buy_notional == Mul2(opp.buy_price, opp.token_amount)
          sell_notional == Mul2(opp.sell_price, opp.token_amount)
          trade_fee == Mul2(buy_notional + sell_notional, Lit2(2, 1000))
          deposit == calc_deposit_cost(opp.sell_at, sell_notional, Split(opp.pair)[2])
      IN /\ opp.capital_used = buy_notional
         /\ opp.theoretical_profit = sell_notional - buy_notional
         /\ Abs(opp.theoretical_profit
                  - Mul2(opp.token_amount, opp.sell_price - opp.buy_price)) <= 1
         /\ opp.deposit_cost = deposit.cost
         /\ opp.best_net = deposit.network
         /\ opp.deposit_time = deposit.time
         /\ opp.net_profit = MinusCost(opp.theoretical_profit - trade_fee, opp.deposit_cost)
         /\ opp.net_profit >= spread_config.min_profit

\* A call with min_profit 0.5 that returned an opportunity which pays a
\* deposit fee and dropped a pair whose net profit was below min_profit.
NetProfitCorrectWitness ==
  /\ spread_pc = "returned"
  /\ spread_config.min_profit = Lit2(5, 10)
  /\ \E i \in 1..Len(spread_result) :
       /\ IsFinite(spread_result[i].deposit_cost)
       /\ spread_result[i].deposit_cost > 0
       /\ spread_result[i].net_profit < spread_result[i].theoretical_profit
  /\ \E k \in 1..Len(spread_log) : spread_log[k].outcome = "unprofitable"

\* The fields of the quote are numbers (the volume may be missing, and is
\* then 0).
NumericQuote(q) ==
  /\ q.is_dict
  /\ q.buy \notin {None, BadStr, Missing, NaN}
  /\ q.sell \notin {None, BadStr, Missing, NaN}
  /\ q.volume \notin {None, BadStr, NaN}

QuoteVolume(q) == IF q.volume = Missing THEN 0 ELSE q.volume

\* The price is positive: a positive multiple of 1/Scale2, or the tiny price.
PositivePrice(x) == x = TinyPrice \/ (x # TinyPrice /\ x > 0)

\* The price is above 0.000001.
ValidPrice(x) == x # TinyPrice /\ x > 0

\* buy / sell > 1.5, for positive prices.
RatioExceeded(q) ==
  /\ q.buy # TinyPrice
  /\ q.sell = TinyPrice \/ 2 * q.buy > 3 * q.sell

\* The quote is among the markets of its pair that survived.
Survives(item, q) ==
  \E k \in 1..Len(Survivors(item)) : Survivors(item)[k].exchange = q.exchange

\* The pairs whose quotes the call examined: those it reached (the loop ends
\* at a pair that raises) that are a dict of at least 2 exchanges and no
\* leveraged token.
ExaminedItems ==
  { item \in {market_data[k] : k \in 1..Len(spread_log)} :
      item.is_dict /\ Len(item.exchanges) >= 2 /\ ~IsLeveraged(item.pair) }

\* No opportunity was returned for a pair with fewer than 2 surviving markets.
FewSurvivorsSkipped ==
  \A k \in 1..Len(market_data) :
    Len(Survivors(market_data[k])) < 2 =>
      \A i \in 1..Len(spread_result) : spread_result[i].pair # market_data[k].pair

\* C21 as claimed: a quote is removed from the candidate markets of its pair
\* exactly when its volume is below min_volume, or one of its prices is not
\* positive, or its buy / sell ratio exceeds 1.5; and a pair with fewer than 2
\* surviving markets is not returned.
QuoteFilterPositive ==
  spread_pc \in {"returned", "raised"} =>
    /\ \A item \in ExaminedItems : \A k \in 1..Len(item.exchanges) :
         LET q == item.exchanges[k]
         IN NumericQuote(q) =>
              (Survives(item, q) <=>
                 /\ QuoteVolume(q) >= spread_config.min_volume
                 /\ PositivePrice(q.buy) /\ PositivePrice(q.sell)
                 /\ ~RatioExceeded(q))
    /\ FewSurvivorsSkipped

\* C21 as amended: a quote is removed exactly when its volume is below
\* min_volume, or one of its prices is at most 0.000001, or its buy / sell
\* ratio exceeds 1.5; a quote whose fields are not numbers is removed too;
\* and a pair with fewer than 2 surviving markets is not returned.
QuoteFilterMinValid ==
  spread_pc \in {"returned", "raised"} =>
    /\ \A item \in ExaminedItems : \A k \in 1..Len(item.exchanges) :
         LET q == item.exchanges[k]
         IN IF NumericQuote(q)
            THEN Survives(item, q) <=>
                   /\ QuoteVolume(q) >= spread_config.min_volume
                   /\ ValidPrice(q.buy) /\ ValidPrice(q.sell)
                   /\ ~RatioExceeded(q)
            ELSE ~Survives(item, q)
    /\ FewSurvivorsSkipped

\* A call on a pair with six quotes of which one survives (the others have a
\* volume below min_volume or none, a tiny price, or a ratio of 1.6): the pair
\* was not returned, and a second pair, with two surviving quotes, was.
QuoteFilterMinValidWitness ==
  /\ spread_pc = "returned"
  /\ Len(market_data) = 2
  /\ Len(market_data[1].exchanges) = 6
  /\ Len(Survivors(market_data[1])) = 1
  /\ \E k \in 1..6 : market_data[1].exchanges[k].buy = TinyPrice
  /\ \E k \in 1..6 : /\ NumericQuote(market_data[1].exchanges[k])
                     /\ RatioExceeded(market_data[1].exchanges[k])
  /\ Len(Survivors(market_data[2])) = 2
  /\ Len(spread_result) = 1
  /\ spread_result[1].pair = market_data[2].pair

\* C22: every opportunity find_arbitrage_opportunities returned has
\* token_amount = 0.8 * available_capital / (buy_price * 1.002) and
\* capital_used = buy_price * token_amount, which is positive and not above
\* available_capital.
CapitalBounded ==
  spread_pc = "returned" =>
    \A i \in 1..Len(spread_result) :
      LET opp == spread_result[i]
          capital == spread_config.available_capital
      IN /\ opp.token_amount =
              Mul2(Div2(capital, Mul2(opp.buy_price, Lit2(1002, 1000))), Lit2(8, 10))
         /\ opp.capital_used = Mul2(opp.buy_price, opp.token_amount)
         /\ opp.capital_used > 0
         /\ opp.capital_used <= capital

\* A call with available_capital 8016 that returned an opportunity bought at
\* an ask of 1.01 which uses more than 6399 of the capital.
CapitalBoundedWitness ==
  /\ spread_pc = "returned"
  /\ spread_config.available_capital = Lit2(8016, 1)
  /\ \E i \in 1..Len(spread_result) :
       /\ spread_result[i].buy_price = Lit2(101, 100)
       /\ spread_result[i].capital_used > Lit2(6399, 1)

\* C23: whatever the requests come to, fetch_okx_data issues at most
\* MAX_RETRIES + 1 requests, never raises to its caller, and the record it
\* returns has the status 'success' or 'error'.
FetchNeverRaises ==
  /\ requests_made <= MAX_RETRIES + 1
  /\ okx_pc # "raised"
  /\ okx_pc = "returned" => okx_result.status \in {"success", "error"}

\* The time between the fetch pass before the last call of fetch_all_data
\* and that call.
SincePass == last_call.at - last_call.previous.finished

\* C24: a call of fetch_all_data issues requests only when at least
\* cache_duration seconds have passed since the fetch pass before it
\* finished; a call made earlier issues no request, returns the stored
\* ticker data and leaves it as it was; and the data a call returns from the
\* cache is what a fetch pass stored that finished less than cache_duration
\* seconds before the call.
CacheWindow ==
  last_call.made =>
    /\ last_call.requests > 0 /\ last_call.previous.done
          => SincePass >= cache_duration
    /\ last_call.previous.done /\ SincePass < cache_duration
          => /\ last_call.cached
             /\ last_call.requests = 0
             /\ last_call.returned = last_call.stored
             /\ ticker_data = last_call.stored
             /\ last_fetch_time = last_call.previous.finished
    /\ last_call.cached
          => /\ last_call.previous.done
             /\ SincePass >= 0
             /\ SincePass < cache_duration
             /\ last_call.returned = last_call.previous.ticker_data

\* A call answered from the cache 59 seconds after a fetch pass in which a
\* request timed out and a later one stored data: the data returned holds an
\* entry stamped at the end of the pass, later than the fetcher's construction.
CacheWindowWitness ==
  /\ last_call.made
  /\ last_call.cached
  /\ SincePass = cache_duration - 1
  /\ \E e \in last_call.returned :
       e.timestamp = last_call.previous.finished /\ e.timestamp > StartTime
====
